---- MODULE Spec2Model ----
(***************************************************************************)
(* Verification model of the contract dependency engine of stellar-suite:  *)
(*   - ContractDependencyWatcherService   (the change coordinator)         *)
(*   - ContractDependencyDetectionService (graph cache and graph building) *)
(*   - RpcAuthService                     (auth profiles and secrets)      *)
(* Spec         : the coordinator and the graph cache as a state machine.  *)
(* SpecGraph    : buildDependencyGraph as a function of a bounded          *)
(*                workspace.                                               *)
(* SpecService  : builds, invalidations and queries of the graph service.  *)
(* SpecManifest : buildDependencyGraph on manifests with their tables.     *)
(* SpecScan     : the import scan with unreadable files and directories.   *)
(* SpecAuth     : the calls of RpcAuthService; SpecProfiles: creates and   *)
(*                deletes only.                                            *)
(* SpecRunning  : the coordinator with auto-refresh, never stopped, whose  *)
(*                rebuilds all succeed.                                    *)
(* SpecWatching : the coordinator without manual refresh() calls.          *)
(* SpecNames    : creations and renamings of profiles with padded names.   *)
(* SpecListeners: the coordinator with its listeners and dispose().        *)
(***************************************************************************)
EXTENDS Integers, Sequences, FiniteSets, TLC

\* ------------------------------------------------------------------ bounds
\* total number of refresh() invocations explored
MaxRebuilds == 2
\* largest value of the wall clock (counted from construction)
MaxTime == 1
\* watches of one kind that can be live at once
MaxWatches == 2
\* declared dependencies plus import statements in the workspace of SpecGraph
MaxFacts == 4
\* dependency records in the manifests of SpecManifest
MaxEntries == 2
\* profiles in the store of SpecNames
MaxProfiles == 2

\* ------------------------------------------------------- coordinator state
VARIABLES
    options,          \* this.options (autoRefresh, watchSourceFiles)
    isRunning,        \* this.isRunning
    cargoWatcher,     \* this.cargoWatcher # null
    sourceWatcher,    \* this.sourceWatcher # null
    liveCargo,        \* manifest watches created and not disposed
    liveSource,       \* source watches created and not disposed
    startTasks,       \* start() calls suspended at an await: pc -> how many
    debounceTimer,    \* this.debounceTimer # null (the handle stays after the timer fired)
    timers,           \* the timeouts that are set and neither expired nor cleared
    pendingChanges,   \* this.pendingChanges
    tasks,            \* refresh() executions between their start and their completion
    started,          \* number of refresh() invocations so far
    cachedGraph,      \* dependencyService.cachedGraph (Null, or the build that made it)
    lastScanTime,     \* dependencyService.lastScanTime
    now,              \* Date.now()
    burst,            \* history: the current (latest) debounce burst
    lastBuild,        \* history: the last completed build, while nothing replaced it
    last              \* history: what the last step completed

\* --------------------------------------------------- workspace and its graph
VARIABLES
    declared,         \* the [dependencies] entries of the manifests: (from, name)
    imported,         \* the import statements of the sources: (sourceContract, importedModule)
    cursor,           \* how far into the workspace the writing has come
    built,            \* buildDependencyGraph() has run on this workspace
    graph             \* the DependencyGraph it returned

gvars == <<declared, imported, cursor, built, graph>>

wvars == <<options, isRunning, cargoWatcher, sourceWatcher, liveCargo, liveSource,
          startTasks, debounceTimer, timers, pendingChanges, tasks, started,
          cachedGraph, lastScanTime, now, burst, lastBuild, last>>

\* ------------------------------------------------- graphs held by callers
VARIABLES
    heap,             \* the graph objects the builds returned, by build
    answer            \* the last call of the service and what it returned

svars == <<heap, answer>>

\* ------------------------------------------------- manifests with tables
VARIABLES
    entries,          \* the dependency records of the manifests, by package and table
    resolverBuild,    \* whether the resolver, told nothing, follows [build-dependencies]
    manifestCall,     \* the options buildDependencyGraph() was called with, once called
    manifestGraph     \* the DependencyGraph that call returned

mvars == <<entries, resolverBuild, manifestCall, manifestGraph>>

\* ---------------------------------------------------- sources on the disk
VARIABLES
    unreadable,       \* the files and directories whose read throws
    scan              \* what detectImportDependencies() did, once called

fvars == <<unreadable, scan>>

\* ----------------------------------------------------- RPC auth profiles
VARIABLES
    authState,        \* the RpcAuthStoreState of the state store: profiles, activeProfileId
    secretStore,      \* the secret store: the secrets by key
    clock,            \* Date.now()
    called            \* what the call made in the last step did

avars == <<authState, secretStore, clock, called>>

\* ------------------------------------------------------ change listeners
VARIABLES
    changeListeners,  \* this.changeListeners
    disposed          \* history: dispose() has been called

lvars == <<changeListeners, disposed>>

\* the variables of the specifications that follow the first three
xvars == <<mvars, fvars, avars, lvars>>

vars == <<wvars, gvars, svars, xvars>>

\* ------------------------------------------------------------- vocabulary
\* cachedGraph: DependencyGraph | null = null
Null == 0

CargoPath == "a/Cargo.toml"
SourcePath == "a/src/lib.rs"
Paths == {CargoPath, SourcePath}

Range(s) == {s[i] : i \in DOMAIN s}

\* Array.prototype.indexOf on a sequence that holds x
IndexOf(s, x) == CHOOSE i \in DOMAIN s : s[i] = x /\ \A j \in 1..(i - 1) : s[j] # x

\* the change kinds a watch callback passes to scheduleRefresh
EventKinds == {"added", "modified"}
\* the kinds a caller passes to refresh()
ManualKinds == {"full-refresh"}

\* a timeout set by scheduleRefresh: the change kind its callback passes to
\* refresh(), whether this.debounceTimer is its handle, and (history) whether a
\* stop() has run since it was set
NewTimer(kind) == [kind |-> kind, current |-> TRUE, preStop |-> FALSE]

NoTask == [id |-> 0, origin |-> "none", kind |-> "none", pc |-> "none", ofBurst |-> FALSE,
           graphBefore |-> Null]

NoEvent == [type |-> "none", affectedContracts |-> {}, graph |-> Null]

NoBuild == [graph |-> Null, time |-> 0]

\* events: "none", "one" or "several" file events in the burst
NoBurst == [events |-> "none", rebuilds |-> 0, published |-> 0, outcome |-> "none"]

StartPcs == {"afterCargo", "afterSource"}

\* the listener functions that callers pass to onDependencyChange()
Listeners == {"f", "g"}

\* history of an emitChange(): the listeners subscribed when it began, how
\* often each listener was called, the listeners that threw, and whether an
\* exception left emitChange(); this value: no emitChange()
NoDelivery == [atPublish |-> << >>, got |-> [l \in Listeners |-> 0], threw |-> {},
               escaped |-> FALSE]

\* history of the last step: op "done" for a refresh() that ended, with the way it
\* ended ("ok", "empty", "failed"), whether its rejection reached its caller, the
\* event it emitted and what its emitChange() did; op "stop" for a stop() of a
\* running coordinator, with whether a timeout was pending; op "none" for every
\* other step
NoDone == [op |-> "none", t |-> NoTask, outcome |-> "none", propagated |-> FALSE,
           event |-> NoEvent, pendingTimer |-> FALSE, delivery |-> NoDelivery]

Done(t, outcome, propagated, event) ==
    [op |-> "done", t |-> t, outcome |-> outcome, propagated |-> propagated,
     event |-> event, pendingTimer |-> FALSE, delivery |-> NoDelivery]

\* A continuation of start() after startCargoWatcher()/startSourceWatcher(), or of
\* refresh() after buildDependencyGraph(), is queued as a microtask: these awaits
\* wait for no I/O. Timers, watch callbacks and the completion of scanWorkspace()
\* are macrotasks and run only when no microtask is queued.
MicrotaskQueued ==
    \/ \E pc \in StartPcs : startTasks[pc] > 0
    \/ \E t \in tasks : t.pc = "build"

\* --------------------------------------------------- graph cache (service)
\* a cache that already calls a graph stale when its age equals maxAge
GetCachedGraphStrict(maxAge) ==
    IF cachedGraph = Null THEN Null
    ELSE IF now - lastScanTime >= maxAge THEN Null ELSE cachedGraph

\* getCachedGraph(maxAge)
GetCachedGraph(maxAge) ==
    IF cachedGraph = Null THEN Null
    ELSE IF now - lastScanTime > maxAge THEN Null
    ELSE cachedGraph

\* an invalidation that leaves the graph in the cache
KeptGraph(g) == g

\* invalidateCache(): the value cachedGraph gets
InvalidatedGraph(g) == Null

\* the maxAge values a reader passes
Ages == 0..MaxTime

\* ------------------------------------------------------------ refresh()
\* refresh() up to its first await: log, invalidateCache(), scanWorkspace() called
BeginRefresh(origin, kind, ofBurst) ==
    /\ started < MaxRebuilds
    /\ started' = started + 1
    /\ cachedGraph' = InvalidatedGraph(cachedGraph)
    /\ lastScanTime' = 0
    /\ lastBuild' = NoBuild
    /\ LET t == [id |-> started + 1, origin |-> origin, kind |-> kind, pc |-> "scan",
                 ofBurst |-> ofBurst, graphBefore |-> cachedGraph]
       IN  tasks' = tasks \cup {t}

\* a refresh() whose failure reaches no caller
NeverPropagates(origin) == FALSE

\* whether a rejection of refresh() reaches the caller: the debounce callback
\* attaches .catch(log); start() and a manual caller await it
Propagates(origin) == origin # "timer"

\* a manual refresh(kind)
ManualRefresh(kind) ==
    /\ BeginRefresh("manual", kind, FALSE)
    /\ last' = NoDone
    /\ UNCHANGED <<gvars, svars, xvars>>
    /\ UNCHANGED <<options, isRunning, cargoWatcher, sourceWatcher, liveCargo, liveSource,
                   startTasks, debounceTimer, timers, pendingChanges, now, burst>>

\* history: the burst learns how its rebuild ended
BurstOutcome(t, outcome) ==
    IF t.ofBurst
    THEN [burst EXCEPT !.outcome = outcome,
                       !.published = IF outcome = "ok" THEN @ + 1 ELSE @]
    ELSE burst

\* scanWorkspace() rejects: catch, log, rethrow
ScanFails(t) ==
    /\ ~MicrotaskQueued
    /\ t \in tasks /\ t.pc = "scan"
    /\ tasks' = tasks \ {t}
    /\ burst' = BurstOutcome(t, "failed")
    /\ last' = Done(t, "failed", Propagates(t.origin), NoEvent)
    /\ UNCHANGED <<gvars, svars, xvars>>
    /\ UNCHANGED <<options, isRunning, cargoWatcher, sourceWatcher, liveCargo, liveSource,
                   startTasks, debounceTimer, timers, pendingChanges, started, cachedGraph,
                   lastScanTime, now, lastBuild>>

\* scanWorkspace() resolves with no contracts: log and return
ScanEmpty(t) ==
    /\ ~MicrotaskQueued
    /\ t \in tasks /\ t.pc = "scan"
    /\ tasks' = tasks \ {t}
    /\ burst' = BurstOutcome(t, "empty")
    /\ last' = Done(t, "empty", FALSE, NoEvent)
    /\ UNCHANGED <<gvars, svars, xvars>>
    /\ UNCHANGED <<options, isRunning, cargoWatcher, sourceWatcher, liveCargo, liveSource,
                   startTasks, debounceTimer, timers, pendingChanges, started, cachedGraph,
                   lastScanTime, now, lastBuild>>

\* the parts of a DependencyGraph object
GraphParts == {"nodes", "edges", "imports", "cycles", "deploymentOrder", "deploymentLevels",
               "externalDependencies", "workspaceContracts", "statistics"}

\* the object literal buildDependencyGraph() assembles: every part is a local
\* of the build that assembles it
AssembledGraph(id) == [p \in GraphParts |-> id]

\* a build that stores its graph as soon as it is called
CacheEarly(t, g) == t.id

\* this.cachedGraph while buildDependencyGraph() runs to its await: the
\* resolver result and the imports are locals, the field is not written
CacheDuringBuild(t, g) == g

\* scanWorkspace() resolves with contracts: buildDependencyGraph() is called
ScanOk(t) ==
    /\ ~MicrotaskQueued
    /\ t \in tasks /\ t.pc = "scan"
    /\ tasks' = (tasks \ {t}) \cup {[t EXCEPT !.pc = "build"]}
    /\ cachedGraph' = CacheDuringBuild(t, cachedGraph)
    /\ last' = NoDone
    /\ UNCHANGED <<gvars, svars, xvars>>
    /\ UNCHANGED <<options, isRunning, cargoWatcher, sourceWatcher, liveCargo, liveSource,
                   startTasks, debounceTimer, timers, pendingChanges, started,
                   lastScanTime, now, burst, lastBuild>>

\* buildDependencyGraph() throws before it stores the graph: catch, log, rethrow
BuildFails(t) ==
    /\ t \in tasks /\ t.pc = "build"
    /\ tasks' = tasks \ {t}
    /\ burst' = BurstOutcome(t, "failed")
    /\ last' = Done(t, "failed", Propagates(t.origin), NoEvent)
    /\ UNCHANGED <<gvars, svars, xvars>>
    /\ UNCHANGED <<options, isRunning, cargoWatcher, sourceWatcher, liveCargo, liveSource,
                   startTasks, debounceTimer, timers, pendingChanges, started, cachedGraph,
                   lastScanTime, now, lastBuild>>

\* ------------------------------------------------------------ emitChange()
\* what a listener does when it is called: it returns, it throws, or it
\* disposes the subscription of the listener `whom` and returns
Behaviours(l) ==
    {[do |-> "return", whom |-> l], [do |-> "throw", whom |-> l]}
        \cup {[do |-> "unsubscribe", whom |-> x] : x \in Listeners}

\* the Disposable of onDependencyChange(listener): indexOf, then splice(index, 1)
Unsubscribed(ls, listener) ==
    IF listener \in Range(ls)
    THEN SubSeq(ls, 1, IndexOf(ls, listener) - 1)
             \o SubSeq(ls, IndexOf(ls, listener) + 1, Len(ls))
    ELSE ls

\* the array after the call of the listener at place i
AfterCall(ls, i, does) ==
    IF does[ls[i]].do = "unsubscribe" THEN Unsubscribed(ls, does[ls[i]].whom) ELSE ls

RECURSIVE EmitUncaught(_, _, _, _)
\* a loop without try/catch: the first exception ends it and leaves emitChange()
EmitUncaught(ls, i, does, d) ==
    IF i > Len(ls) THEN [listeners |-> ls, delivery |-> d]
    ELSE LET l == ls[i]
             counted == [d EXCEPT !.got[l] = @ + 1]
         IN  IF does[l].do = "throw"
             THEN [listeners |-> ls,
                   delivery |-> [counted EXCEPT !.threw = @ \cup {l}, !.escaped = TRUE]]
             ELSE EmitUncaught(AfterCall(ls, i, does), i + 1, does, counted)

RECURSIVE EmitFrom(_, _, _, _)
\* for (const listener of this.changeListeners) from place i on: the iterator
\* reads the live array by index, so the length is looked up again before each
\* call; an exception of a listener is caught and logged
EmitFrom(ls, i, does, d) ==
    IF i > Len(ls) THEN [listeners |-> ls, delivery |-> d]
    ELSE LET l == ls[i]
             counted == [d EXCEPT !.got[l] = @ + 1,
                                 !.threw = IF does[l].do = "throw" THEN @ \cup {l} ELSE @]
         IN  EmitFrom(AfterCall(ls, i, does), i + 1, does, counted)

\* emitChange(event) when the listeners behave as `does` says
EmitChange(ls, does) == EmitFrom(ls, 1, does, [NoDelivery EXCEPT !.atPublish = ls])

\* the ways the subscribed listeners can behave
Doings(ls) ==
    IF ls = << >> THEN {[l \in Listeners |-> [do |-> "return", whom |-> l]]}
    ELSE {does \in [Listeners -> UNION {Behaviours(l) : l \in Listeners}] :
             \A l \in Listeners :
                 IF l \in Range(ls) THEN does[l] \in Behaviours(l)
                 ELSE does[l] = [do |-> "return", whom |-> l]}

\* an event that names no path
NoAffectedContracts(p) == {}

\* affectedContracts: Array.from(this.pendingChanges)
AffectedContracts(p) == p

\* this.pendingChanges.clear() after emitChange(event)
PendingAfterPublish(p) == {}

\* buildDependencyGraph() stores and returns the graph; refresh() emits the
\* event and clears pendingChanges
BuildOk(t) ==
    /\ t \in tasks /\ t.pc = "build"
    /\ tasks' = tasks \ {t}
    /\ cachedGraph' = t.id
    /\ lastScanTime' = now
    /\ lastBuild' = [graph |-> t.id, time |-> now]
    /\ \E does \in Doings(changeListeners) :
           LET e == EmitChange(changeListeners, does)
               event == [type |-> t.kind,
                         affectedContracts |-> AffectedContracts(pendingChanges),
                         graph |-> t.id]
           IN  /\ changeListeners' = e.listeners
               /\ IF e.delivery.escaped
                  THEN \* catch of refresh(): log and rethrow
                       /\ pendingChanges' = pendingChanges
                       /\ burst' = BurstOutcome(t, "failed")
                       /\ last' = [Done(t, "failed", Propagates(t.origin), event)
                                      EXCEPT !.delivery = e.delivery]
                  ELSE /\ pendingChanges' = PendingAfterPublish(pendingChanges)
                       /\ burst' = BurstOutcome(t, "ok")
                       /\ last' = [Done(t, "ok", FALSE, event)
                                      EXCEPT !.delivery = e.delivery]
    /\ UNCHANGED <<gvars, svars, mvars, fvars, avars, disposed>>
    /\ UNCHANGED <<options, isRunning, cargoWatcher, sourceWatcher, liveCargo, liveSource,
                   startTasks, debounceTimer, timers, started, now>>

\* ------------------------------------------------------ scheduleRefresh()
\* a scheduleRefresh()/stop() that leaves the previous timeout armed
KeepTimeout(ts) == ts

\* clearTimeout(this.debounceTimer): the timeout the handle names is no longer set
ClearTimeout(ts) == {t \in ts : ~t.current}

\* this.debounceTimer is given another value: no timeout is the current one
Forget(ts) == {[t EXCEPT !.current = FALSE] : t \in ts}

\* history: refreshes of an earlier burst no longer belong to the current one
Detach(ts) == {[t EXCEPT !.ofBurst = FALSE] : t \in ts}

\* a watch callback: scheduleRefresh(kind, path)
FileEvent(kind, path) ==
    /\ ~MicrotaskQueued
    /\ \/ path = CargoPath /\ liveCargo > 0
       \/ path = SourcePath /\ liveSource > 0
    /\ pendingChanges' = pendingChanges \cup {path}
    /\ timers' = Forget(IF debounceTimer THEN ClearTimeout(timers) ELSE timers)
                  \cup {NewTimer(kind)}
    /\ debounceTimer' = TRUE
    /\ IF timers # {}
       THEN /\ burst' = IF burst.events = "none" THEN burst
                        ELSE [burst EXCEPT !.events = "several"]
            /\ tasks' = tasks
       ELSE /\ burst' = IF isRunning THEN [NoBurst EXCEPT !.events = "one"] ELSE NoBurst
            /\ tasks' = Detach(tasks)
    /\ last' = NoDone
    /\ UNCHANGED <<gvars, svars, xvars>>
    /\ UNCHANGED <<options, isRunning, cargoWatcher, sourceWatcher, liveCargo, liveSource,
                   startTasks, started, cachedGraph, lastScanTime, now, lastBuild>>

\* if (this.options.autoRefresh) in the timeout's callback
AutoRefresh(o) == o.autoRefresh

\* a timeout expires: its callback calls refresh(kind) when autoRefresh
TimerFires(tm) ==
    /\ ~MicrotaskQueued
    /\ tm \in timers
    /\ timers' = timers \ {tm}
    /\ IF AutoRefresh(options)
       THEN /\ BeginRefresh("timer", tm.kind, burst.events # "none")
            /\ burst' = IF burst.events = "none" THEN burst
                        ELSE [burst EXCEPT !.rebuilds = @ + 1]
       ELSE UNCHANGED <<tasks, started, cachedGraph, lastScanTime, lastBuild, burst>>
    /\ last' = NoDone
    /\ UNCHANGED <<gvars, svars, xvars>>
    /\ UNCHANGED <<options, isRunning, cargoWatcher, sourceWatcher, liveCargo, liveSource,
                   startTasks, debounceTimer, pendingChanges, now>>

\* ------------------------------------------------------------ start()
\* the end of start(): isRunning = true, then the initial refresh when autoRefresh
FinishStart ==
    /\ isRunning' = TRUE
    /\ IF options.autoRefresh
       THEN BeginRefresh("start", "full-refresh", FALSE)
       ELSE UNCHANGED <<tasks, started, cachedGraph, lastScanTime, lastBuild>>
    /\ last' = NoDone

\* start() on a stopped coordinator, up to its first await: startCargoWatcher()
StartCall ==
    /\ ~isRunning
    /\ liveCargo < MaxWatches
    /\ cargoWatcher' = TRUE
    /\ liveCargo' = liveCargo + 1
    /\ startTasks' = [startTasks EXCEPT !["afterCargo"] = @ + 1]
    /\ last' = NoDone
    /\ UNCHANGED <<gvars, svars, xvars>>
    /\ UNCHANGED <<options, isRunning, sourceWatcher, liveSource, debounceTimer, timers,
                   pendingChanges, tasks, started, cachedGraph, lastScanTime, now,
                   burst, lastBuild>>

\* start() on a running coordinator: log and return
StartNoop ==
    /\ isRunning
    /\ UNCHANGED vars

\* start() resumes after startCargoWatcher(): startSourceWatcher() when
\* watchSourceFiles, else the end of start()
StartAfterCargo ==
    /\ startTasks["afterCargo"] > 0
    /\ IF options.watchSourceFiles
       THEN /\ liveSource < MaxWatches
            /\ sourceWatcher' = TRUE
            /\ liveSource' = liveSource + 1
            /\ startTasks' = [startTasks EXCEPT !["afterCargo"] = @ - 1,
                                                !["afterSource"] = @ + 1]
            /\ last' = NoDone
            /\ UNCHANGED <<isRunning, tasks, started, cachedGraph, lastScanTime, lastBuild>>
       ELSE /\ startTasks' = [startTasks EXCEPT !["afterCargo"] = @ - 1]
            /\ FinishStart
            /\ UNCHANGED <<sourceWatcher, liveSource>>
    /\ UNCHANGED <<gvars, svars, xvars>>
    /\ UNCHANGED <<options, cargoWatcher, liveCargo, debounceTimer, timers, pendingChanges, now,
                   burst>>

\* start() resumes after startSourceWatcher()
StartAfterSource ==
    /\ startTasks["afterSource"] > 0
    /\ startTasks' = [startTasks EXCEPT !["afterSource"] = @ - 1]
    /\ FinishStart
    /\ UNCHANGED <<gvars, svars, xvars>>
    /\ UNCHANGED <<options, cargoWatcher, sourceWatcher, liveCargo, liveSource,
                   debounceTimer, timers, pendingChanges, now, burst>>

\* ------------------------------------------------------------- stop()
\* history: the timeouts that are set when stop() runs were scheduled before it
MarkPreStop(ts) == {[t EXCEPT !.preStop = TRUE] : t \in ts}

\* stop() on a running coordinator
Stop ==
    /\ isRunning
    /\ cargoWatcher' = FALSE
    /\ liveCargo' = IF cargoWatcher THEN liveCargo - 1 ELSE liveCargo
    /\ sourceWatcher' = FALSE
    /\ liveSource' = IF sourceWatcher THEN liveSource - 1 ELSE liveSource
    /\ timers' = IF debounceTimer THEN ClearTimeout(MarkPreStop(timers))
                 ELSE MarkPreStop(timers)
    /\ debounceTimer' = FALSE
    /\ isRunning' = FALSE
    /\ pendingChanges' = {}
    /\ burst' = NoBurst
    /\ tasks' = Detach(tasks)
    /\ last' = [NoDone EXCEPT !.op = "stop", !.pendingTimer = (timers # {})]
    /\ UNCHANGED <<gvars, svars, xvars>>
    /\ UNCHANGED <<options, startTasks, started, cachedGraph, lastScanTime, now,
                   lastBuild>>

\* stop() on a stopped coordinator: return
StopNoop ==
    /\ ~isRunning
    /\ UNCHANGED vars

\* ------------------------------------------- onDependencyChange(), dispose()
\* onDependencyChange(listener) with a function that is not subscribed
Subscribe(l) ==
    /\ l \notin Range(changeListeners)
    /\ changeListeners' = Append(changeListeners, l)
    /\ last' = NoDone
    /\ UNCHANGED <<gvars, svars, mvars, fvars, avars, disposed>>
    /\ UNCHANGED <<options, isRunning, cargoWatcher, sourceWatcher, liveCargo, liveSource,
                   startTasks, debounceTimer, timers, pendingChanges, tasks, started, cachedGraph,
                   lastScanTime, now, burst, lastBuild>>

\* dispose() of the Disposable that onDependencyChange(listener) returned,
\* outside a delivery
Unsubscribe(l) ==
    /\ l \in Range(changeListeners)
    /\ changeListeners' = Unsubscribed(changeListeners, l)
    /\ last' = NoDone
    /\ UNCHANGED <<gvars, svars, mvars, fvars, avars, disposed>>
    /\ UNCHANGED <<options, isRunning, cargoWatcher, sourceWatcher, liveCargo, liveSource,
                   startTasks, debounceTimer, timers, pendingChanges, tasks, started, cachedGraph,
                   lastScanTime, now, burst, lastBuild>>

\* dispose(): stop(), every watch in this.disposables disposed, and
\* this.changeListeners = []
Dispose ==
    /\ ~disposed
    /\ disposed' = TRUE
    /\ changeListeners' = << >>
    /\ liveCargo' = 0
    /\ liveSource' = 0
    /\ IF isRunning
       THEN /\ cargoWatcher' = FALSE
            /\ sourceWatcher' = FALSE
            /\ timers' = IF debounceTimer THEN ClearTimeout(MarkPreStop(timers))
                         ELSE MarkPreStop(timers)
            /\ debounceTimer' = FALSE
            /\ isRunning' = FALSE
            /\ pendingChanges' = {}
            /\ burst' = NoBurst
            /\ tasks' = Detach(tasks)
            /\ last' = [NoDone EXCEPT !.op = "stop", !.pendingTimer = (timers # {})]
       ELSE /\ last' = NoDone
            /\ UNCHANGED <<cargoWatcher, sourceWatcher, timers, debounceTimer, isRunning,
                           pendingChanges, burst, tasks>>
    /\ UNCHANGED <<gvars, svars, mvars, fvars, avars>>
    /\ UNCHANGED <<options, startTasks, started, cachedGraph, lastScanTime, now, lastBuild>>

\* ------------------------------------------------------------- the clock
Tick ==
    /\ ~MicrotaskQueued
    /\ now < MaxTime
    /\ now' = now + 1
    /\ last' = NoDone
    /\ UNCHANGED <<gvars, svars, xvars>>
    /\ UNCHANGED <<options, isRunning, cargoWatcher, sourceWatcher, liveCargo, liveSource,
                   startTasks, debounceTimer, timers, pendingChanges, tasks, started, cachedGraph,
                   lastScanTime, burst, lastBuild>>

\* ------------------------------------------------------------ the workspace
\* contractName of the packages scanWorkspace() returned, in scan order
Contracts == <<"a", "b", "c", "d">>
ContractNames == {Contracts[i] : i \in DOMAIN Contracts}

\* crate names a source line can import, in the order the scanner meets them:
\* packages, the first of them written in another case, and a crate that is
\* no package of the workspace
ModuleOrder == <<"a", "b", "c", "A", "x">>
Modules == {ModuleOrder[i] : i \in DOMAIN ModuleOrder}

\* String.prototype.toLowerCase on the names of the model
ToLowerCase(n) ==
    CASE n = "A"       -> "a"
      [] n = "Key One" -> "key one"
      [] OTHER         -> n

\* the manifest path the scanner reports for a package
CargoTomlPath(c) == [dir |-> c, sep |-> "/", trailingSlash |-> FALSE]

\* normalizePath(): backslashes become slashes, a trailing slash is dropped
NormalizePath(p) == [p EXCEPT !.sep = "/", !.trailingSlash = FALSE]

RECURSIVE Flatten(_)
\* Array.prototype.flat on a sequence of sequences
Flatten(ss) == IF ss = <<>> THEN <<>> ELSE Head(ss) \o Flatten(Tail(ss))

\* ------------------------------------------- resolveDeploymentDependencies
\* the declared names of package c that resolve to another workspace package,
\* in scan order
WorkspaceDependencies(c, deps) ==
    SelectSeq(Contracts, LAMBDA n : n # c /\ [from |-> c, name |-> n] \in deps)

\* one edge per declared dependency that resolves to another workspace package
ResolveEdges(deps) ==
    Flatten([i \in DOMAIN Contracts |->
        LET c  == Contracts[i]
            ds == WorkspaceDependencies(c, deps)
        IN  [j \in DOMAIN ds |-> [from |-> CargoTomlPath(c), to |-> CargoTomlPath(ds[j]),
                                  dependencyName |-> ds[j], reason |-> "workspace"]]])

RECURSIVE Visit(_, _, _, _)
RECURSIVE VisitAll(_, _, _, _)
\* depth-first traversal with an explicit recursion stack: revisiting a node
\* that is on the stack reports the stack slice from it to the top, the start
\* repeated at the end
Visit(n, stack, st, deps) ==
    IF n \in Range(stack)
    THEN [st EXCEPT !.cycles =
              Append(@, SubSeq(stack, IndexOf(stack, n), Len(stack)) \o <<n>>)]
    ELSE IF n \in st.visited
         THEN st
         ELSE VisitAll(WorkspaceDependencies(n, deps), Append(stack, n),
                       [st EXCEPT !.visited = @ \cup {n}], deps)

\* the traversal restarts from every node not visited yet
VisitAll(ns, stack, st, deps) ==
    IF ns = <<>>
    THEN st
    ELSE VisitAll(Tail(ns), stack, Visit(Head(ns), stack, st, deps), deps)

DetectCycles(deps) ==
    LET found == VisitAll(Contracts, <<>>, [visited |-> {}, cycles |-> <<>>], deps).cycles
    IN  [i \in DOMAIN found |-> [j \in DOMAIN found[i] |-> CargoTomlPath(found[i][j])]]

\* the packages not placed yet whose workspace dependencies are all placed
Ready(placed, deps) ==
    SelectSeq(Contracts, LAMBDA c : /\ c \notin placed
                                    /\ Range(WorkspaceDependencies(c, deps)) \subseteq placed)

RECURSIVE TopologicalOrder(_, _)
\* dependency-first order, ties broken by scan order; partial on a cycle
TopologicalOrder(order, deps) ==
    LET ready == Ready(Range(order), deps)
    IN  IF ready = <<>> THEN order ELSE TopologicalOrder(Append(order, Head(ready)), deps)

RECURSIVE Layers(_, _)
\* longest-path layering: layer i holds the packages whose dependencies all
\* lie in layers before i
Layers(levels, deps) ==
    LET ready == Ready(UNION {Range(levels[i]) : i \in DOMAIN levels}, deps)
    IN  IF ready = <<>> THEN levels ELSE Layers(Append(levels, ready), deps)

ResolveDeploymentDependencies(deps) ==
    LET order  == TopologicalOrder(<<>>, deps)
        levels == Layers(<<>>, deps)
    IN  [edges  |-> ResolveEdges(deps),
         cycles |-> DetectCycles(deps),
         order  |-> [i \in DOMAIN order |-> CargoTomlPath(order[i])],
         levels |-> [i \in DOMAIN levels |->
                        [j \in DOMAIN levels[i] |-> CargoTomlPath(levels[i][j])]]]

\* ------------------------------------------------ detectImportDependencies
\* the import records of the workspace: packages in scan order, and the
\* statements of a package in the order of its source lines
DetectImportDependencies(imports) ==
    Flatten([i \in DOMAIN Contracts |->
        LET ms == SelectSeq(ModuleOrder, LAMBDA m :
                      [sourceContract |-> Contracts[i], importedModule |-> m] \in imports)
        IN  [j \in DOMAIN ms |-> [sourceContract |-> Contracts[i], importedModule |-> ms[j]]]])

\* ------------------------------------------------------- buildEnhancedEdges
\* the key of an edge in edgeMap
EdgeKey(e) == <<e.from, e.to>>

\* Map.prototype.set on a map kept in insertion order: an existing key keeps
\* its place and takes the new value
MapSet(edges, e) ==
    IF \E i \in DOMAIN edges : EdgeKey(edges[i]) = EdgeKey(e)
    THEN [i \in DOMAIN edges |-> IF EdgeKey(edges[i]) = EdgeKey(e) THEN e ELSE edges[i]]
    ELSE Append(edges, e)

\* contractByName.get(): the packages whose lower-cased name is the key; the
\* last one set is the one the map holds
ContractByName(key) == SelectSeq(Contracts, LAMBDA c : ToLowerCase(c) = key)

RECURSIVE CargoEdges(_, _)
\* first loop: every resolver edge enters the map as a 'cargo' edge
CargoEdges(cargoEdges, edges) ==
    IF cargoEdges = <<>>
    THEN edges
    ELSE LET e == Head(cargoEdges)
         IN  CargoEdges(Tail(cargoEdges),
                        MapSet(edges, [from |-> e.from, to |-> e.to,
                                       dependencyName |-> e.dependencyName,
                                       reason |-> e.reason, source |-> "cargo",
                                       isExternal |-> FALSE, imports |-> <<>>]))

\* a merge that never looks the pair up in the map: every resolving import
\* adds an edge of its own
AppendImportEdge(edges, imp) ==
    LET src == ContractByName(ToLowerCase(imp.sourceContract))
        tgt == ContractByName(ToLowerCase(imp.importedModule))
    IN  IF src = <<>> \/ tgt = <<>>
        THEN edges
        ELSE Append(edges, [from |-> CargoTomlPath(src[Len(src)]),
                            to |-> CargoTomlPath(tgt[Len(tgt)]),
                            dependencyName |-> imp.importedModule,
                            reason |-> "workspace", source |-> "import",
                            isExternal |-> FALSE, imports |-> <<imp>>])

\* a merge that attaches a confirming import and leaves the edge's source as
\* it was
AttachOnly(edges, imp) ==
    LET src == ContractByName(ToLowerCase(imp.sourceContract))
        tgt == ContractByName(ToLowerCase(imp.importedModule))
    IN  IF src = <<>> \/ tgt = <<>>
        THEN edges
        ELSE LET from == CargoTomlPath(src[Len(src)])
                 to   == CargoTomlPath(tgt[Len(tgt)])
             IN  IF \E i \in DOMAIN edges : EdgeKey(edges[i]) = <<from, to>>
                 THEN [i \in DOMAIN edges |->
                          IF EdgeKey(edges[i]) = <<from, to>>
                          THEN [edges[i] EXCEPT !.imports = Append(@, imp)]
                          ELSE edges[i]]
                 ELSE Append(edges, [from |-> from, to |-> to,
                                     dependencyName |-> imp.importedModule,
                                     reason |-> "workspace", source |-> "import",
                                     isExternal |-> FALSE, imports |-> <<imp>>])

\* a merge that turns every import of a package into an edge, whether or not
\* the imported crate is a package of the workspace
EdgeForAnyImport(edges, imp) ==
    LET src == ContractByName(ToLowerCase(imp.sourceContract))
    IN  IF src = <<>>
        THEN edges
        ELSE LET from == CargoTomlPath(src[Len(src)])
                 to   == CargoTomlPath(ToLowerCase(imp.importedModule))
             IN  IF \E i \in DOMAIN edges : EdgeKey(edges[i]) = <<from, to>>
                 THEN [i \in DOMAIN edges |->
                          IF EdgeKey(edges[i]) = <<from, to>>
                          THEN [edges[i] EXCEPT !.source = "both",
                                                !.imports = Append(@, imp)]
                          ELSE edges[i]]
                 ELSE Append(edges, [from |-> from, to |-> to,
                                     dependencyName |-> imp.importedModule,
                                     reason |-> "workspace", source |-> "import",
                                     isExternal |-> FALSE, imports |-> <<imp>>])

\* second loop, one import: it upgrades the edge between its two packages to
\* 'both', or creates an 'import' edge; an import that does not resolve to two
\* workspace packages leaves the map alone
AugmentWithImport(edges, imp) ==
    LET src == ContractByName(ToLowerCase(imp.sourceContract))
        tgt == ContractByName(ToLowerCase(imp.importedModule))
    IN  IF src = <<>> \/ tgt = <<>>
        THEN edges
        ELSE LET from == CargoTomlPath(src[Len(src)])
                 to   == CargoTomlPath(tgt[Len(tgt)])
             IN  IF \E i \in DOMAIN edges : EdgeKey(edges[i]) = <<from, to>>
                 THEN [i \in DOMAIN edges |->
                          IF EdgeKey(edges[i]) = <<from, to>>
                          THEN [edges[i] EXCEPT !.source = "both",
                                                !.imports = Append(@, imp)]
                          ELSE edges[i]]
                 ELSE Append(edges, [from |-> from, to |-> to,
                                     dependencyName |-> imp.importedModule,
                                     reason |-> "workspace", source |-> "import",
                                     isExternal |-> FALSE, imports |-> <<imp>>])

RECURSIVE AugmentWithImports(_, _)
AugmentWithImports(edges, imports) ==
    IF imports = <<>>
    THEN edges
    ELSE AugmentWithImports(AugmentWithImport(edges, Head(imports)), Tail(imports))

BuildEnhancedEdges(cargoEdges, imports) ==
    AugmentWithImports(CargoEdges(cargoEdges, <<>>), imports)

\* --------------------------------------------------------------- buildNodes
NewNode == [dependencies |-> <<>>, dependents |-> <<>>, dependencyCount |-> 0,
            dependentCount |-> 0, depth |-> 0]

\* contracts.find(): the first package whose normalized manifest path is p
FindContract(p) ==
    SelectSeq(Contracts, LAMBDA c : NormalizePath(CargoTomlPath(c)) = NormalizePath(p))

\* an adjacency step that records the edge at its source only
AddDependencyOnly(nodes, e) ==
    LET f == FindContract(e.from)
        t == FindContract(e.to)
    IN  IF f = <<>> \/ t = <<>>
        THEN nodes
        ELSE IF Head(t) \in Range(nodes[Head(f)].dependencies)
             THEN nodes
             ELSE [nodes EXCEPT ![Head(f)].dependencies = Append(@, Head(t)),
                                ![Head(f)].dependencyCount = @ + 1]

\* one edge of the adjacency loop: a name enters a list once
AddAdjacency(nodes, e) ==
    LET f == FindContract(e.from)
        t == FindContract(e.to)
    IN  IF f = <<>> \/ t = <<>>
        THEN nodes
        ELSE LET from == Head(f)
                 to   == Head(t)
                 n1   == IF to \in Range(nodes[from].dependencies)
                         THEN nodes
                         ELSE [nodes EXCEPT ![from].dependencies = Append(@, to),
                                            ![from].dependencyCount = @ + 1]
             IN  IF from \in Range(n1[to].dependents)
                 THEN n1
                 ELSE [n1 EXCEPT ![to].dependents = Append(@, from),
                                 ![to].dependentCount = @ + 1]

RECURSIVE Adjacency(_, _)
Adjacency(nodes, edges) ==
    IF edges = <<>> THEN nodes ELSE Adjacency(AddAdjacency(nodes, Head(edges)), Tail(edges))

\* the smaller of two numbers, where the larger is wanted
Least(a, b) == IF a <= b THEN a ELSE b

Max(a, b) == IF a >= b THEN a ELSE b

RECURSIVE CalculateDepth(_, _)
RECURSIVE MaxDepthOf(_, _)
\* calculateDepth(nodeName): st carries the visited set, the nodes and the
\* value the call returns; expanded lists the calls that went past the
\* visited check, in their order
CalculateDepth(n, st) ==
    IF n \in st.visited
    THEN [st EXCEPT !.result = st.nodes[n].depth]
    ELSE LET s1 == [st EXCEPT !.visited = @ \cup {n}, !.expanded = Append(@, n)]
         IN  IF s1.nodes[n].dependencies = <<>>
             THEN [s1 EXCEPT !.nodes[n].depth = 0, !.result = 0]
             ELSE LET s2 == MaxDepthOf(s1.nodes[n].dependencies, [s1 EXCEPT !.result = 0])
                  IN  [s2 EXCEPT !.nodes[n].depth = s2.result + 1,
                                 !.result = s2.result + 1]

\* Math.max over the depths of the dependencies, computed left to right
MaxDepthOf(ds, st) ==
    IF ds = <<>>
    THEN st
    ELSE LET s1 == CalculateDepth(Head(ds), st)
         IN  MaxDepthOf(Tail(ds), [s1 EXCEPT !.result = Max(st.result, s1.result)])

RECURSIVE FreshDepthsFrom(_, _)
\* a loop that forgets the visited set before each of its calls
FreshDepthsFrom(ns, st) ==
    IF ns = <<>>
    THEN st
    ELSE FreshDepthsFrom(Tail(ns), CalculateDepth(Head(ns), [st EXCEPT !.visited = {}]))

RECURSIVE DepthsFrom(_, _)
\* the loop over nodes.keys()
DepthsFrom(ns, st) ==
    IF ns = <<>> THEN st ELSE DepthsFrom(Tail(ns), CalculateDepth(Head(ns), st))

\* the walk of calculateDepths over a node map, as it stands when the loop ends
DepthWalk(nodes) ==
    DepthsFrom(Contracts, [visited |-> {}, nodes |-> nodes, result |-> 0, expanded |-> <<>>])

CalculateDepths(nodes) == DepthWalk(nodes).nodes

BuildNodes(edges) ==
    CalculateDepths(Adjacency([c \in ContractNames |-> NewNode], edges))

\* ----------------------------------------------- identifyExternalDependencies
WorkspaceContracts == ContractNames

\* the tables of a manifest, in the order allDeps spreads them: a later table
\* replaces the record an earlier one gives a name
Tables == <<"dependencies", "buildDependencies", "devDependencies">>

\* allDeps[name] of package c: the record of the last table that has the name
AllDeps(es, c, name) ==
    LET having == SelectSeq(Tables, LAMBDA t : \E e \in es :
                                e.of = c /\ e.table = t /\ e.name = name)
    IN  {e \in es : e.of = c /\ e.name = name /\ e.table = having[Len(having)]}

\* the names whose record in allDeps has no path and that no package bears
IdentifyExternalDependencies(es) ==
    {e.name : e \in {x \in es : /\ x \in AllDeps(es, x.of, x.name)
                                  /\ ~x.path
                                  /\ x.name \notin WorkspaceContracts}}

\* the manifests of a workspace given by (from, name) pairs: records of the
\* [dependencies] table with the workspace marker of the test fixtures
ManifestEntries(deps) ==
    {[of |-> d.from, table |-> "dependencies", name |-> d.name,
      path |-> FALSE, workspace |-> TRUE] : d \in deps}

ExternalDependencies(deps) == IdentifyExternalDependencies(ManifestEntries(deps))

\* ------------------------------------------------------- calculateStatistics
RECURSIVE MaxOf(_, _)
\* Math.max(...values, floor)
MaxOf(values, floor) ==
    IF values = <<>> THEN floor ELSE MaxOf(Tail(values), Max(Head(values), floor))

\* Array.from(nodes.values()) in insertion order
NodeValues(nodes) == [i \in DOMAIN Contracts |-> nodes[Contracts[i]]]

\* statistics that count a node as leaf or root only when it has an edge at
\* its other side
StatisticsOfLinkedNodes(nodes, edges, externalDependencies) ==
    LET values         == NodeValues(nodes)
        totalContracts == Len(values)
    IN  [totalContracts             |-> totalContracts,
         totalDependencies          |-> Len(edges),
         externalDependencies       |-> Cardinality(externalDependencies),
         circularDependencies       |-> 0,
         maxDepth                   |-> MaxOf([i \in DOMAIN values |-> values[i].depth], 0),
         avgDependenciesPerContract |->
             IF totalContracts > 0 THEN [num |-> Len(edges), den |-> totalContracts]
                                   ELSE [num |-> 0, den |-> 1],
         leafContracts              |->
             Len(SelectSeq(values, LAMBDA n : n.dependencyCount = 0 /\ n.dependentCount > 0)),
         rootContracts              |->
             Len(SelectSeq(values, LAMBDA n : n.dependentCount = 0 /\ n.dependencyCount > 0))]

\* avgDependenciesPerContract is the quotient num / den, 0 / 1 for no contract
CalculateStatistics(nodes, edges, externalDependencies) ==
    LET values         == NodeValues(nodes)
        totalContracts == Len(values)
    IN  [totalContracts             |-> totalContracts,
         totalDependencies          |-> Len(edges),
         externalDependencies       |-> Cardinality(externalDependencies),
         circularDependencies       |-> 0,
         maxDepth                   |-> MaxOf([i \in DOMAIN values |-> values[i].depth], 0),
         avgDependenciesPerContract |->
             IF totalContracts > 0 THEN [num |-> Len(edges), den |-> totalContracts]
                                   ELSE [num |-> 0, den |-> 1],
         leafContracts              |->
             Len(SelectSeq(values, LAMBDA n : n.dependencyCount = 0)),
         rootContracts              |->
             Len(SelectSeq(values, LAMBDA n : n.dependentCount = 0))]

\* ------------------------------------------------------ buildDependencyGraph
\* steps 1 to 6 and the graph literal: deps are the declared dependencies the
\* resolver follows, external the set of identifyExternalDependencies
AssembleGraph(deps, imps, external) ==
    LET cargoResolution == ResolveDeploymentDependencies(deps)
        imports         == DetectImportDependencies(imps)
        enhancedEdges   == BuildEnhancedEdges(cargoResolution.edges, imports)
        nodes           == BuildNodes(enhancedEdges)
    IN  [nodes                |-> nodes,
         edges                |-> enhancedEdges,
         imports              |-> imports,
         cycles               |-> cargoResolution.cycles,
         deploymentOrder      |-> cargoResolution.order,
         deploymentLevels     |-> cargoResolution.levels,
         externalDependencies |-> external,
         workspaceContracts   |-> WorkspaceContracts,
         statistics           |-> CalculateStatistics(nodes, enhancedEdges, external)]

DependencyGraph(deps, imps) == AssembleGraph(deps, imps, ExternalDependencies(deps))

\* a check that takes a single cycle for none
HasSeveralCycles(g) == Len(g.cycles) > 1

HasCircularDependencies(g) == Len(g.cycles) > 0

\* one description per cycle: the prefix and the joined path
GetCircularDependencyDetails(g) ==
    [i \in DOMAIN g.cycles |-> <<"Circular dependency: ", g.cycles[i]>>]

\* ------------------------------------------------ the workspace is written
\* the packages whose directory holds source files with import lines; the
\* last package is a manifest only
WithSources == {"a", "b", "c"}

\* what a workspace can hold, in the order the scanner reads it: package by
\* package, the [dependencies] entries naming a workspace package and then the
\* source lines importing a crate
FactCandidates ==
    Flatten([i \in DOMAIN Contracts |->
        LET c  == Contracts[i]
            ns == SelectSeq(Contracts, LAMBDA n : n # c)
        IN  [j \in DOMAIN ns |-> [fact |-> "dependency", of |-> c, name |-> ns[j]]]
                \o (IF c \in WithSources
                    THEN [j \in DOMAIN ModuleOrder |->
                             [fact |-> "import", of |-> c, name |-> ModuleOrder[j]]]
                    ELSE <<>>)])

Facts == Cardinality(declared) + Cardinality(imported)

\* the manifest of a package gains a [dependencies] entry naming a workspace package
DeclareDependency(i) ==
    /\ ~built
    /\ Facts < MaxFacts
    /\ i >= cursor
    /\ FactCandidates[i].fact = "dependency"
    /\ declared' = declared \cup {[from |-> FactCandidates[i].of, name |-> FactCandidates[i].name]}
    /\ cursor' = i + 1
    /\ UNCHANGED <<imported, built, graph, wvars, svars, xvars>>

\* a source file of a package gains a line importing a crate
WriteImport(i) ==
    /\ ~built
    /\ Facts < MaxFacts
    /\ i >= cursor
    /\ FactCandidates[i].fact = "import"
    /\ imported' = imported \cup {[sourceContract |-> FactCandidates[i].of,
                                    importedModule |-> FactCandidates[i].name]}
    /\ cursor' = i + 1
    /\ UNCHANGED <<declared, built, graph, wvars, svars, xvars>>

BuildDependencyGraph ==
    /\ ~built
    /\ built' = TRUE
    /\ graph' = DependencyGraph(declared, imported)
    /\ UNCHANGED <<declared, imported, cursor, wvars, svars, xvars>>

\* -------------------------------------------------------------- queries
\* Array.from(graph.nodes.values()).find((n) => n.name === name): the names
\* are compared as they are written
HasNode(g, name) == name \in DOMAIN g.nodes

\* names.map((n) => graph.nodes.get(n)).filter(defined), nodes given by name
DefinedNodes(g, names) == SelectSeq(names, LAMBDA n : HasNode(g, n))

RECURSIVE Traverse(_, _, _, _)
RECURSIVE TraverseEach(_, _, _, _)
\* traverse(name) of getTransitiveDependencies / getTransitiveDependents:
\* list is "dependencies" or "dependents"; st carries visited and transitive
Traverse(g, list, name, st) ==
    IF ~HasNode(g, name) THEN st ELSE TraverseEach(g, list, g.nodes[name][list], st)

\* a loop that lists the names it meets and does not go on from them
ListOnly(g, list, names, st) ==
    [st EXCEPT !.visited = @ \cup Range(names),
               !.transitive = @ \o SelectSeq(names, LAMBDA n : n \notin st.visited /\ HasNode(g, n))]

\* the loop over the names of the list
TraverseEach(g, list, names, st) ==
    IF names = <<>>
    THEN st
    ELSE LET depName == Head(names)
         IN  IF depName \in st.visited
             THEN TraverseEach(g, list, Tail(names), st)
             ELSE LET s1 == [st EXCEPT !.visited = @ \cup {depName}]
                      s2 == IF HasNode(g, depName)
                            THEN Traverse(g, list, depName,
                                          [s1 EXCEPT !.transitive = Append(@, depName)])
                            ELSE s1
                  IN  TraverseEach(g, list, Tail(names), s2)

GetTransitiveDependencies(g, name) ==
    Traverse(g, "dependencies", name, [visited |-> {}, transitive |-> <<>>]).transitive

GetTransitiveDependents(g, name) ==
    Traverse(g, "dependents", name, [visited |-> {}, transitive |-> <<>>]).transitive

NoNodes == [direct |-> <<>>, transitive |-> <<>>]

GetContractDependencies(g, name) ==
    IF ~HasNode(g, name)
    THEN NoNodes
    ELSE [direct     |-> DefinedNodes(g, g.nodes[name].dependencies),
          transitive |-> GetTransitiveDependencies(g, name)]

\* a lookup of the dependents that ignores the case of the name
GetDependentsIgnoringCase(g, name) ==
    LET n == ToLowerCase(name)
    IN  IF ~HasNode(g, n)
        THEN NoNodes
        ELSE [direct     |-> DefinedNodes(g, g.nodes[n].dependents),
              transitive |-> GetTransitiveDependents(g, n)]

GetContractDependents(g, name) ==
    IF ~HasNode(g, name)
    THEN NoNodes
    ELSE [direct     |-> DefinedNodes(g, g.nodes[name].dependents),
          transitive |-> GetTransitiveDependents(g, name)]

\* ------------------------------------------------- the service is called
\* the workspaces buildDependencyGraph() is called with: none of the packages
\* depends on another; a chain a -> b -> c; a declared cycle a <-> b; a declared
\* edge a -> b confirmed by an import and an import-only edge c -> a; a cycle
\* a <-> b that c depends on; d over b and c over a, where a imports itself
SampleWorkspaces ==
    {[declared |-> {}, imported |-> {}],
     [declared |-> {[from |-> "a", name |-> "b"], [from |-> "b", name |-> "c"]},
      imported |-> {}],
     [declared |-> {[from |-> "a", name |-> "b"], [from |-> "b", name |-> "a"]},
      imported |-> {}],
     [declared |-> {[from |-> "a", name |-> "b"]},
      imported |-> {[sourceContract |-> "a", importedModule |-> "b"],
                    [sourceContract |-> "c", importedModule |-> "A"]}],
     [declared |-> {[from |-> "a", name |-> "b"], [from |-> "b", name |-> "a"],
                    [from |-> "c", name |-> "a"]},
      imported |-> {}],
     [declared |-> {[from |-> "d", name |-> "b"], [from |-> "d", name |-> "c"],
                    [from |-> "b", name |-> "a"], [from |-> "c", name |-> "a"]},
      imported |-> {[sourceContract |-> "a", importedModule |-> "a"]}]}

\* the names a caller asks about: the packages and names that are no node
QueryNames == ContractNames \cup Modules \cup {"unknown"}

QueryKinds == {"getContractDependencies", "getContractDependents",
               "hasCircularDependencies", "getCircularDependencyDetails"}

\* the contract names a query is called with: the two queries about the whole
\* graph take none
Arguments(kind) ==
    IF kind \in {"hasCircularDependencies", "getCircularDependencyDetails"}
    THEN {""}
    ELSE QueryNames

NoAnswer == [op |-> "none", graph |-> Null, name |-> "", result |-> NoNodes]

\* a build that writes its graph into the object the previous build returned
ReuseObject(n) == IF n = 0 THEN 1 ELSE n

\* const graph: DependencyGraph = { ... }: the object of the n+1st build is new
NewObject(n) == n + 1

\* buildDependencyGraph(contracts) is called and returns
ServiceBuild(w) ==
    /\ started < MaxRebuilds
    /\ LET id == NewObject(started)
       IN  /\ started' = id
           /\ heap' = IF id \in DOMAIN heap
                      THEN [heap EXCEPT ![id] = DependencyGraph(w.declared, w.imported)]
                      ELSE Append(heap, DependencyGraph(w.declared, w.imported))
           /\ cachedGraph' = id
           /\ lastBuild' = [graph |-> id, time |-> now]
           /\ answer' = [NoAnswer EXCEPT !.op = "buildDependencyGraph", !.graph = id]
    /\ lastScanTime' = now
    /\ UNCHANGED <<gvars, xvars>>
    /\ UNCHANGED <<options, isRunning, cargoWatcher, sourceWatcher, liveCargo, liveSource,
                   startTasks, debounceTimer, timers, pendingChanges, tasks, now, burst, last>>

\* invalidateCache() is called
ServiceInvalidate ==
    /\ cachedGraph' = InvalidatedGraph(cachedGraph)
    /\ lastScanTime' = 0
    /\ lastBuild' = NoBuild
    /\ answer' = [NoAnswer EXCEPT !.op = "invalidateCache"]
    /\ UNCHANGED <<gvars, heap, xvars>>
    /\ UNCHANGED <<options, isRunning, cargoWatcher, sourceWatcher, liveCargo, liveSource,
                   startTasks, debounceTimer, timers, pendingChanges, tasks, started, now,
                   burst, last>>

\* what a query returns on graph g
QueryResult(kind, g, name) ==
    CASE kind = "getContractDependencies"      -> GetContractDependencies(g, name)
      [] kind = "getContractDependents"        -> GetContractDependents(g, name)
      [] kind = "hasCircularDependencies"      ->
             [NoNodes EXCEPT !.direct = <<HasCircularDependencies(g)>>]
      [] kind = "getCircularDependencyDetails" ->
             [NoNodes EXCEPT !.direct = GetCircularDependencyDetails(g)]

\* a caller that holds the graph of build id asks a query about it
ServiceQuery(kind, id, name) ==
    /\ id \in 1..started
    /\ answer' = [op |-> kind, graph |-> id, name |-> name,
                  result |-> QueryResult(kind, heap[id], name)]
    /\ UNCHANGED <<wvars, gvars, heap, xvars>>

\* ------------------------------------------- manifests and build options
\* a field the caller leaves out of the options object
Absent == "absent"

\* the packages whose manifests are written
Declaring == <<"a", "b">>

\* the records a manifest can hold: of a package or of the crate x that is no
\* package, with no marker (a version only), a path, or workspace = true
EntryCandidates ==
    {[of |-> c, table |-> t, name |-> n, path |-> m.path, workspace |-> m.workspace] :
        c \in Range(Declaring), t \in Range(Tables), n \in {"a", "b", "x"},
        m \in {[path |-> FALSE, workspace |-> FALSE],
               [path |-> TRUE,  workspace |-> FALSE],
               [path |-> FALSE, workspace |-> TRUE]}}

NoCall == [built |-> FALSE, includeDevDependencies |-> Absent,
           includeBuildDependencies |-> Absent]

\* the option objects a caller passes, a boolean written as a string
CallerOptions ==
    [built : {TRUE}, includeDevDependencies : {Absent, "true", "false"},
     includeBuildDependencies : {Absent, "true", "false"}]

\* { includeDevDependencies: false, includeBuildDependencies: true, ...options }
MergedOptions(o) ==
    [includeDevDependencies   |-> IF o.includeDevDependencies = Absent
                                  THEN FALSE ELSE o.includeDevDependencies = "true",
     includeBuildDependencies |-> IF o.includeBuildDependencies = Absent
                                  THEN TRUE ELSE o.includeBuildDependencies = "true"]

\* the options object of the resolver call: includeDevDependencies and
\* nothing else
ResolverOptions(opts) == [includeDevDependencies |-> opts.includeDevDependencies]

\* the declared dependencies the resolver follows: [dependencies] always,
\* [dev-dependencies] when told to, [build-dependencies] when told to and, told
\* nothing, as the resolver itself decides
IncludedDependencies(es, ropts) ==
    LET includeBuild == IF "includeBuildDependencies" \in DOMAIN ropts
                        THEN ropts.includeBuildDependencies
                        ELSE resolverBuild
    IN  {[from |-> e.of, name |-> e.name] :
            e \in {x \in es : \/ x.table = "dependencies"
                              \/ x.table = "devDependencies" /\ ropts.includeDevDependencies
                              \/ x.table = "buildDependencies" /\ includeBuild}}

\* a manifest gains a record; a table holds a name once
WriteEntry(e) ==
    /\ ~manifestCall.built
    /\ Cardinality(entries) < MaxEntries
    /\ e.name # e.of
    /\ \A x \in entries : ~(x.of = e.of /\ x.table = e.table /\ x.name = e.name)
    /\ entries' = entries \cup {e}
    /\ UNCHANGED <<resolverBuild, manifestCall, manifestGraph, wvars, gvars, svars, fvars, avars,
                   lvars>>

\* buildDependencyGraph(contracts, o) on the manifests, sources without imports
BuildWithOptions(o) ==
    /\ ~manifestCall.built
    /\ manifestCall' = o
    /\ manifestGraph' =
           AssembleGraph(IncludedDependencies(entries, ResolverOptions(MergedOptions(o))),
                         {}, IdentifyExternalDependencies(entries))
    /\ UNCHANGED <<entries, resolverBuild, wvars, gvars, svars, fvars, avars, lvars>>

\* ------------------------------------------------- the scan of the sources
\* the directory entries below the package directories a and b, in the order
\* readdirSync lists them (the directories of c and d are empty)
Tree ==
    << [path |-> "a/lib.rs",        parent |-> "a",        name |-> "lib.rs",    kind |-> "file", ext |-> ".rs"],
       [path |-> "a/src",           parent |-> "a",        name |-> "src",       kind |-> "dir",  ext |-> ""],
       [path |-> "a/target",        parent |-> "a",        name |-> "target",    kind |-> "dir",  ext |-> ""],
       [path |-> "a/README.md",     parent |-> "a",        name |-> "README.md", kind |-> "file", ext |-> ".md"],
       [path |-> "a/src/m.rs",      parent |-> "a/src",    name |-> "m.rs",      kind |-> "file", ext |-> ".rs"],
       [path |-> "a/target/gen.rs", parent |-> "a/target", name |-> "gen.rs",    kind |-> "file", ext |-> ".rs"],
       [path |-> "b/lib.rs",        parent |-> "b",        name |-> "lib.rs",    kind |-> "file", ext |-> ".rs"] >>

\* the lines of a file, trimmed and split at white space
Content(f) ==
    CASE f = "a/lib.rs"        -> << <<"use", "b">>, <<"fn", "main">>,
                                     <<"extern", "crate", "c">>, <<"mod", "x">> >>
      [] f = "a/src/m.rs"      -> << <<"pub", "use", "b">>, <<"use", "A">> >>
      [] f = "a/target/gen.rs" -> << <<"use", "d">> >>
      [] f = "a/README.md"     -> << <<"use", "b">> >>
      [] f = "b/lib.rs"        -> << <<"extern", "a">>, <<"use", "a">>, <<"use", "a">> >>
      [] OTHER                 -> << >>

\* what a read gives: the value, or the error it throws
Returned(v) == [threw |-> FALSE, value |-> v]

Thrown == [threw |-> TRUE, value |-> << >>]

\* fs.readdirSync(dir, { withFileTypes: true })
ReadDirSync(dir) ==
    IF dir \in unreadable THEN Thrown
    ELSE Returned(SelectSeq(Tree, LAMBDA e : e.parent = dir))

\* fs.readFileSync(filePath, 'utf-8').split('\n')
ReadFileSync(f) == IF f \in unreadable THEN Thrown ELSE Returned(Content(f))

\* maxSourceDepth and sourceExtensions as detectImportDependencies sets them
DefaultSourceDepth == 3

SourceExtensions == {".rs"}

SkippedDirectories == {"target", "node_modules", ".git", "out"}

RECURSIVE FindSourceFiles(_, _)
RECURSIVE FilesOfEntries(_, _)
\* the loop over the entries of a directory listed at the given depth
FilesOfEntries(es, currentDepth) ==
    IF es = << >> THEN << >>
    ELSE LET entry == Head(es)
             found == IF entry.kind = "dir"
                      THEN IF entry.name \in SkippedDirectories THEN << >>
                           ELSE FindSourceFiles(entry.path, currentDepth + 1)
                      ELSE IF entry.ext \in SourceExtensions THEN <<entry.path>>
                           ELSE << >>
         IN  found \o FilesOfEntries(Tail(es), currentDepth)

\* findSourceFiles: a directory that cannot be listed gives no files, the
\* error is caught and ignored
FindSourceFiles(dir, currentDepth) ==
    IF currentDepth > DefaultSourceDepth THEN << >>
    ELSE LET listing == ReadDirSync(dir)
         IN  IF listing.threw THEN << >>
             ELSE FilesOfEntries(listing.value, currentDepth)

\* the three patterns, tried in this order on a trimmed line
MatchImport(line) ==
    IF Len(line) >= 2 /\ line[1] = "use"
    THEN [matched |-> TRUE, importType |-> "use", importedModule |-> line[2]]
    ELSE IF Len(line) >= 3 /\ line[1] = "extern" /\ line[2] = "crate"
    THEN [matched |-> TRUE, importType |-> "extern_crate", importedModule |-> line[3]]
    ELSE IF Len(line) >= 2 /\ line[1] = "mod"
    THEN [matched |-> TRUE, importType |-> "mod", importedModule |-> line[2]]
    ELSE [matched |-> FALSE, importType |-> "", importedModule |-> ""]

RECURSIVE ImportsOfLines(_, _, _, _)
\* the loop over the lines from line number i on
ImportsOfLines(lines, i, filePath, contractName) ==
    IF i > Len(lines) THEN << >>
    ELSE LET m == MatchImport(lines[i])
             record == [sourceContract |-> contractName,
                        importedModule |-> m.importedModule,
                        importType     |-> m.importType,
                        sourceFile     |-> filePath,
                        lineNumber     |-> i,
                        statement      |-> lines[i]]
         IN  (IF m.matched THEN <<record>> ELSE << >>)
                 \o ImportsOfLines(lines, i + 1, filePath, contractName)

\* a parse with no try around the read: the error of the read leaves it
ParseWithoutCatch(filePath, contractName) ==
    LET content == ReadFileSync(filePath)
    IN  IF content.threw THEN Thrown
        ELSE Returned(ImportsOfLines(content.value, 1, filePath, contractName))

\* parseImportsFromFile: a file that cannot be read is logged and gives no
\* records
ParseImportsFromFile(filePath, contractName) ==
    LET content == ReadFileSync(filePath)
    IN  IF content.threw THEN Returned(<< >>)
        ELSE Returned(ImportsOfLines(content.value, 1, filePath, contractName))

RECURSIVE ImportsOfFiles(_, _)
\* the inner loop of detectImportDependencies; an error thrown by a parse
\* ends it
ImportsOfFiles(sourceFiles, contractName) ==
    IF sourceFiles = << >> THEN Returned(<< >>)
    ELSE LET fileImports == ParseImportsFromFile(Head(sourceFiles), contractName)
             rest        == ImportsOfFiles(Tail(sourceFiles), contractName)
         IN  IF fileImports.threw \/ rest.threw THEN Thrown
             ELSE Returned(fileImports.value \o rest.value)

RECURSIVE ImportsOfContracts(_)
\* the outer loop of detectImportDependencies over the packages
ImportsOfContracts(cs) ==
    IF cs = << >> THEN Returned(<< >>)
    ELSE LET mine == ImportsOfFiles(FindSourceFiles(Head(cs), 0), Head(cs))
             rest == ImportsOfContracts(Tail(cs))
         IN  IF mine.threw \/ rest.threw THEN Thrown
             ELSE Returned(mine.value \o rest.value)

NoScan == [done |-> FALSE, threw |-> FALSE, imports |-> << >>]

\* the files and directories a read can fail on
Breakable == {Tree[i].path : i \in DOMAIN Tree} \cup {"a", "b", "c"}

\* a file or a directory becomes unreadable (permissions, removal)
BecomesUnreadable(p) ==
    /\ ~scan.done
    /\ p \notin unreadable
    /\ unreadable' = unreadable \cup {p}
    /\ UNCHANGED <<scan, mvars, wvars, gvars, svars, avars, lvars>>

\* detectImportDependencies(contracts)
ScanSources ==
    /\ ~scan.done
    /\ LET r == ImportsOfContracts(Contracts)
       IN  scan' = [done |-> TRUE, threw |-> r.threw, imports |-> r.value]
    /\ UNCHANGED <<unreadable, mvars, wvars, gvars, svars, avars, lvars>>

\* ------------------------------------------------------- RpcAuthService
\* an argument or a field that is undefined; the active profile id when there
\* is none
Undefined == "undefined"

NoProfileId == << >>

\* String.prototype.trim on the strings of the model
Trim(s) ==
    CASE s = " "        -> ""
      [] s = "key one " -> "key one"
      [] OTHER          -> s

\* !s?.trim()
Blank(s) == s = Undefined \/ Trim(s) = ""

\* validateRpcAuthProfile: the errors, in the order they are pushed
ValidateRpcAuthProfile(name, type, secret, username, headerName) ==
    LET errors ==
            (IF Trim(name) = "" THEN <<"Profile name is required.">> ELSE << >>)
         \o (IF Trim(secret) = ""
             THEN <<"Authentication secret/token is required.">> ELSE << >>)
         \o (IF type = "basic" /\ Blank(username)
             THEN <<"Username is required for Basic authentication.">> ELSE << >>)
         \o (IF type = "custom-header" /\ Blank(headerName)
             THEN <<"Header name is required for Custom Header authentication.">>
             ELSE << >>)
    IN  [valid |-> errors = << >>, errors |-> errors]

\* .replace(/[^a-z0-9]+/g, '-') and .replace(/(^-|-$)/g, '') on the strings of
\* the model
Hyphenate(s) ==
    CASE s = "key one"  -> "key-one"
      [] s = "key one " -> "key-one-"
      [] s = " "        -> "-"
      [] OTHER          -> s

StripHyphens(s) ==
    CASE s = "-"        -> ""
      [] s = "key-one-" -> "key-one"
      [] OTHER          -> s

\* generateId at the time t: the slug of the name and Date.now()
GenerateId(name, t) == <<StripHyphens(Hyphenate(ToLowerCase(name))), t>>

GetSecretKey(profileId) == <<"rpcAuth.secret.", profileId>>

\* the secret store: getSecret, storeSecret, deleteSecret
GetSecret(secrets, key) ==
    IF \E e \in secrets : e.key = key
    THEN (CHOOSE e \in secrets : e.key = key).value
    ELSE Undefined

DeleteSecret(secrets, key) == {e \in secrets : e.key # key}

StoreSecret(secrets, key, value) ==
    DeleteSecret(secrets, key) \cup {[key |-> key, value |-> value]}

\* profiles.findIndex((p) => p.id === profileId), 0 for none
FindIndex(ps, profileId) ==
    IF \E i \in DOMAIN ps : ps[i].id = profileId
    THEN CHOOSE i \in DOMAIN ps :
             ps[i].id = profileId /\ \A j \in 1..(i - 1) : ps[j].id # profileId
    ELSE 0

\* profiles.some((p) => p.name.toLowerCase() === name.toLowerCase())
NameConflict(ps, name) ==
    \E i \in DOMAIN ps : ToLowerCase(ps[i].name) = ToLowerCase(name)

\* a call that threw leaves the stores as they were
Threw(st, secrets) == [threw |-> TRUE, state |-> st, secrets |-> secrets]

Resolved(st, secrets) == [threw |-> FALSE, state |-> st, secrets |-> secrets]

\* a setActiveProfile that stores any id it is given
SetActiveUnchecked(st, secrets, profileId) ==
    Resolved([st EXCEPT !.activeProfileId = profileId], secrets)

\* setActiveProfile(profileId)
SetActiveProfile(st, secrets, profileId) ==
    IF profileId # NoProfileId /\ FindIndex(st.profiles, profileId) = 0
    THEN Threw(st, secrets)
    ELSE Resolved([st EXCEPT !.activeProfileId = profileId], secrets)

\* the profile createProfile builds (the time stamps createdAt and updatedAt,
\* which no operation reads, are left out)
NewProfile(a, t) ==
    [id         |-> GenerateId(a.name, t),
     name       |-> Trim(a.name),
     type       |-> a.type,
     username   |-> IF a.type = "basic" THEN Trim(a.username) ELSE Undefined,
     headerName |-> IF a.type = "custom-header" THEN Trim(a.headerName) ELSE Undefined]

\* a createProfile that does not look for a profile of the same name
CreateWithoutConflictCheck(st, secrets, t, a) ==
    IF ~ValidateRpcAuthProfile(a.name, a.type, a.secret, a.username, a.headerName).valid
    THEN Threw(st, secrets)
    ELSE LET profile == NewProfile(a, t)
         IN  Resolved([st EXCEPT !.profiles = Append(@, profile)],
                  StoreSecret(secrets, GetSecretKey(profile.id), a.secret))

\* createProfile(name, type, secret, username, headerName) at the time t
CreateProfile(st, secrets, t, a) ==
    IF ~ValidateRpcAuthProfile(a.name, a.type, a.secret, a.username, a.headerName).valid
    THEN Threw(st, secrets)
    ELSE IF NameConflict(st.profiles, a.name)
    THEN Threw(st, secrets)
    ELSE LET profile == NewProfile(a, t)
         IN  Resolved([st EXCEPT !.profiles = Append(@, profile)],
                  StoreSecret(secrets, GetSecretKey(profile.id), a.secret))

\* updates.x ?? y
Coalesce(x, y) == IF x = Undefined THEN y ELSE x

\* updateProfile(profileId, updates)
UpdateProfile(st, secrets, profileId, updates) ==
    LET index == FindIndex(st.profiles, profileId)
    IN  IF index = 0 THEN Threw(st, secrets)
        ELSE
        LET existing == st.profiles[index]
            newName  == IF updates.name = Undefined THEN existing.name
                        ELSE Trim(updates.name)
            type     == Coalesce(updates.type, existing.type)
            dummySecret == Coalesce(updates.secret, "EXISTING_SECRET_PLACEHOLDER")
            updatedUsername ==
                IF updates.username # Undefined THEN Trim(updates.username)
                ELSE existing.username
            updatedHeaderName ==
                IF updates.headerName # Undefined THEN Trim(updates.headerName)
                ELSE existing.headerName
            updated ==
                [id         |-> existing.id,
                 name       |-> newName,
                 type       |-> type,
                 username   |-> IF type = "basic" THEN updatedUsername ELSE Undefined,
                 headerName |-> IF type = "custom-header" THEN updatedHeaderName
                                ELSE Undefined]
        IN  IF /\ ToLowerCase(newName) # ToLowerCase(existing.name)
               /\ NameConflict(st.profiles, newName)
            THEN Threw(st, secrets)
            ELSE IF ~ValidateRpcAuthProfile(newName, type, dummySecret,
                                            updatedUsername, updatedHeaderName).valid
            THEN Threw(st, secrets)
            ELSE Resolved([st EXCEPT !.profiles[index] = updated],
                      IF updates.secret # Undefined /\ Trim(updates.secret) # ""
                      THEN StoreSecret(secrets, GetSecretKey(updated.id), updates.secret)
                      ELSE secrets)

\* profiles.splice(index, 1)
Splice(ps, index) == SubSeq(ps, 1, index - 1) \o SubSeq(ps, index + 1, Len(ps))

\* deleteProfile(profileId)
DeleteProfile(st, secrets, profileId) ==
    LET index == FindIndex(st.profiles, profileId)
    IN  IF index = 0 THEN Threw(st, secrets)
        ELSE Resolved([profiles        |-> Splice(st.profiles, index),
                   activeProfileId |-> IF st.activeProfileId = profileId
                                       THEN NoProfileId ELSE st.activeProfileId],
                  DeleteSecret(secrets, GetSecretKey(profileId)))

\* Buffer.from(s).toString('base64')
Base64(s) == <<"base64", s>>

\* the headers of a profile for a secret that is there
HeadersOf(profile, secret) ==
    CASE profile.type = "bearer-token" ->
             {[name |-> "Authorization", value |-> <<"Bearer ", secret>>]}
      [] profile.type = "api-key" ->
             {[name |-> "X-Api-Key", value |-> <<secret>>]}
      [] profile.type = "basic" ->
             IF profile.username \in {Undefined, ""} THEN {}
             ELSE {[name  |-> "Authorization",
                    value |-> <<"Basic ", Base64(<<profile.username, ":", secret>>)>>]}
      [] profile.type = "custom-header" ->
             IF profile.headerName \in {Undefined, ""} THEN {}
             ELSE {[name |-> profile.headerName, value |-> <<secret>>]}
      [] OTHER -> {}

\* a getAuthHeaders that does not look whether the secret is there
HeadersWithoutSecretCheck(st, secrets) ==
    LET index == FindIndex(st.profiles, st.activeProfileId)
    IN  IF st.activeProfileId = NoProfileId \/ index = 0 THEN {}
        ELSE HeadersOf(st.profiles[index],
                       GetSecret(secrets, GetSecretKey(st.profiles[index].id)))

\* getAuthHeaders(): the headers of the active profile
GetAuthHeaders(st, secrets) ==
    LET index == FindIndex(st.profiles, st.activeProfileId)
    IN  IF st.activeProfileId = NoProfileId \/ index = 0 THEN {}
        ELSE LET secret == GetSecret(secrets, GetSecretKey(st.profiles[index].id))
             IN  IF secret \in {Undefined, ""} THEN {}
                 ELSE HeadersOf(st.profiles[index], secret)

NoOutcome == [op |-> "none", threw |-> FALSE, headers |-> {}]

\* the arguments of the createProfile calls of the model: the names with each
\* type and what the type needs, and arguments the validation refuses
ProfileNames == {"Key One", "key one", "key-one"}

ApiKey ==
    [name |-> "Key One", type |-> "api-key", secret |-> "s1",
     username |-> Undefined, headerName |-> Undefined]

CreateArguments ==
    {[a EXCEPT !.name = n] :
        n \in ProfileNames,
        a \in {ApiKey,
               [ApiKey EXCEPT !.type = "bearer-token"],
               [ApiKey EXCEPT !.type = "basic", !.username = "u"],
               [ApiKey EXCEPT !.type = "custom-header", !.headerName = "H"]}}
    \cup {[ApiKey EXCEPT !.name = " "],
          [ApiKey EXCEPT !.secret = " "],
          [ApiKey EXCEPT !.type = "basic"],
          [ApiKey EXCEPT !.type = "basic", !.username = " "],
          [ApiKey EXCEPT !.type = "custom-header"],
          [ApiKey EXCEPT !.type = "custom-header", !.headerName = " "]}

\* the updates of the updateProfile calls of the model
NoUpdates ==
    [name |-> Undefined, type |-> Undefined, secret |-> Undefined,
     username |-> Undefined, headerName |-> Undefined]

UpdateArguments ==
    {[NoUpdates EXCEPT !.secret = "s2"],
     [NoUpdates EXCEPT !.secret = " "],
     [NoUpdates EXCEPT !.name = "key one"],
     [NoUpdates EXCEPT !.name = " "],
     [NoUpdates EXCEPT !.type = "basic"],
     [NoUpdates EXCEPT !.type = "custom-header", !.headerName = "H"]}

\* the ids a caller passes: those generateId can give and one it cannot
ProfileIds == {<<"key-one", t>> : t \in 0..MaxTime} \cup {<<"unknown", 0>>}

\* what a call leaves in the stores and tells its caller
Leaves(op, r) ==
    /\ authState' = r.state
    /\ secretStore' = r.secrets
    /\ called' = [op |-> op, threw |-> r.threw, headers |-> {}]
    /\ UNCHANGED <<clock, mvars, fvars, wvars, gvars, svars,
                   lvars>>

CreateProfileCall(a) ==
    Leaves("createProfile", CreateProfile(authState, secretStore, clock, a))

UpdateProfileCall(id, u) ==
    Leaves("updateProfile", UpdateProfile(authState, secretStore, id, u))

DeleteProfileCall(id) ==
    Leaves("deleteProfile", DeleteProfile(authState, secretStore, id))

SetActiveProfileCall(id) ==
    Leaves("setActiveProfile", SetActiveProfile(authState, secretStore, id))

GetAuthHeadersCall ==
    /\ called' = [op |-> "getAuthHeaders", threw |-> FALSE,
                   headers |-> GetAuthHeaders(authState, secretStore)]
    /\ UNCHANGED <<authState, secretStore, clock, mvars, fvars, wvars, gvars, svars,
                   lvars>>

\* a millisecond passes
ClockTick ==
    /\ clock < MaxTime
    /\ clock' = clock + 1
    /\ called' = NoOutcome
    /\ UNCHANGED <<authState, secretStore, mvars, fvars, wvars, gvars, svars,
                   lvars>>

\* a secret is lost or deleted out of band
SecretLost(key) ==
    /\ \E e \in secretStore : e.key = key
    /\ secretStore' = DeleteSecret(secretStore, key)
    /\ called' = NoOutcome
    /\ UNCHANGED <<authState, clock, mvars, fvars, wvars, gvars, svars,
                   lvars>>

\* ------------------------------------------------------------------ Spec
WatcherInit ==
    /\ options \in [autoRefresh : BOOLEAN, watchSourceFiles : BOOLEAN]
    /\ isRunning = FALSE
    /\ cargoWatcher = FALSE
    /\ sourceWatcher = FALSE
    /\ liveCargo = 0
    /\ liveSource = 0
    /\ startTasks = [pc \in StartPcs |-> 0]
    /\ debounceTimer = FALSE
    /\ timers = {}
    /\ pendingChanges = {}
    /\ tasks = {}
    /\ started = 0
    /\ cachedGraph = Null
    /\ lastScanTime = 0
    /\ now = 0
    /\ burst = NoBurst
    /\ lastBuild = NoBuild
    /\ last = NoDone

\* everything but what the resolver does with [build-dependencies]
Start ==
    /\ WatcherInit
    /\ declared = {}
    /\ cursor = 1
    /\ imported = {}
    /\ built = FALSE
    /\ graph = Null
    /\ heap = <<>>
    /\ answer = NoAnswer
    /\ unreadable = {}
    /\ scan = NoScan
    /\ authState = [profiles |-> << >>, activeProfileId |-> NoProfileId]
    /\ secretStore = {}
    /\ clock = 0
    /\ called = NoOutcome
    /\ entries = {}
    /\ manifestCall = NoCall
    /\ manifestGraph = Null
    /\ changeListeners = << >>
    /\ disposed = FALSE

Init == Start /\ resolverBuild = TRUE

Next ==
    \/ StartCall
    \/ StartNoop
    \/ StartAfterCargo
    \/ StartAfterSource
    \/ Stop
    \/ StopNoop
    \/ \E k \in EventKinds, p \in Paths : FileEvent(k, p)
    \/ \E tm \in timers : TimerFires(tm)
    \/ \E k \in ManualKinds : ManualRefresh(k)
    \/ \E t \in tasks : ScanFails(t)
    \/ \E t \in tasks : ScanEmpty(t)
    \/ \E t \in tasks : ScanOk(t)
    \/ \E t \in tasks : BuildFails(t)
    \/ \E t \in tasks : BuildOk(t)
    \/ Tick

Spec == Init /\ [][Next]_vars

\* the graph service alone: a workspace is written and its graph is built
DefaultOptions == [autoRefresh |-> TRUE, watchSourceFiles |-> TRUE]

InitGraph == Init /\ options = DefaultOptions

NextGraph ==
    \/ \E i \in DOMAIN FactCandidates : DeclareDependency(i)
    \/ \E i \in DOMAIN FactCandidates : WriteImport(i)
    \/ BuildDependencyGraph

SpecGraph == InitGraph /\ [][NextGraph]_vars

\* the graph service called directly: builds, invalidations and queries
InitService == Init /\ options = DefaultOptions

NextService ==
    \/ \E w \in SampleWorkspaces : ServiceBuild(w)
    \/ ServiceInvalidate
    \/ \E k \in QueryKinds, id \in 1..MaxRebuilds :
           \E n \in Arguments(k) : ServiceQuery(k, id, n)

SpecService == InitService /\ [][NextService]_vars

\* the graph service called on manifests with their three tables, under every
\* choice of the two inclusion options
InitManifest == Start /\ options = DefaultOptions /\ resolverBuild \in BOOLEAN

NextManifest ==
    \/ \E e \in EntryCandidates : WriteEntry(e)
    \/ \E o \in CallerOptions : BuildWithOptions(o)

SpecManifest == InitManifest /\ [][NextManifest]_vars

\* the scan of the sources under every set of unreadable files and directories
InitScan == Init /\ options = DefaultOptions

NextScan ==
    \/ \E p \in Breakable : BecomesUnreadable(p)
    \/ ScanSources

SpecScan == InitScan /\ [][NextScan]_vars

\* the auth profile service: every call, the clock and the loss of secrets
InitAuth == Init /\ options = DefaultOptions

NextAuth ==
    \/ \E a \in CreateArguments : CreateProfileCall(a)
    \/ \E id \in ProfileIds, u \in UpdateArguments : UpdateProfileCall(id, u)
    \/ \E id \in ProfileIds : DeleteProfileCall(id)
    \/ \E id \in ProfileIds \cup {NoProfileId} : SetActiveProfileCall(id)
    \/ GetAuthHeadersCall
    \/ ClockTick
    \/ \E id \in ProfileIds : SecretLost(GetSecretKey(id))

SpecAuth == InitAuth /\ [][NextAuth]_vars

\* the calls that create and delete profiles, and the clock
NextProfiles ==
    \/ \E a \in CreateArguments : CreateProfileCall(a)
    \/ \E id \in ProfileIds : DeleteProfileCall(id)
    \/ ClockTick

SpecProfiles == InitAuth /\ [][NextProfiles]_vars

\* the names callers give, one of them with a space after it
PaddedNames == {"Key One", "key one", "key one ", "key-one"}

\* creations and renamings of profiles, names with surrounding space included
NextNames ==
    \/ \E n \in PaddedNames :
           /\ Len(authState.profiles) < MaxProfiles
           /\ CreateProfileCall([ApiKey EXCEPT !.name = n])
    \/ \E id \in ProfileIds, n \in PaddedNames :
           UpdateProfileCall(id, [NoUpdates EXCEPT !.name = n])
    \/ \E id \in ProfileIds : DeleteProfileCall(id)
    \/ ClockTick

SpecNames == InitAuth /\ [][NextNames]_vars

\* the coordinator with auto-refresh: it is started and not stopped, every scan
\* finds contracts and every build succeeds
InitRunning == Init /\ options.autoRefresh

NextRunning ==
    \/ StartCall
    \/ StartAfterCargo
    \/ StartAfterSource
    \/ \E kind \in EventKinds, path \in Paths : FileEvent(kind, path)
    \/ \E tm \in timers : TimerFires(tm)
    \/ \E t \in tasks : ScanOk(t)
    \/ \E t \in tasks : BuildOk(t)
    \/ Tick

SpecRunning == InitRunning /\ [][NextRunning]_vars

\* the coordinator driven by start(), stop(), the watches and the timeouts
\* only: no caller calls refresh()
NextWatching ==
    \/ NextRunning
    \/ Stop
    \/ \E t \in tasks : ScanFails(t)
    \/ \E t \in tasks : ScanEmpty(t)
    \/ \E t \in tasks : BuildFails(t)

SpecWatching == Init /\ [][NextWatching]_vars

\* the coordinator and its listeners: subscriptions, their disposal, the
\* events that successful rebuilds publish, and dispose()
InitListeners == Init /\ options = [autoRefresh |-> TRUE, watchSourceFiles |-> FALSE]

NextListeners ==
    \/ \E l \in Listeners : Subscribe(l)
    \/ \E l \in Listeners : Unsubscribe(l)
    \/ Dispose
    \/ StartCall
    \/ StartAfterCargo
    \/ \E kind \in EventKinds, path \in Paths : FileEvent(kind, path)
    \/ \E tm \in timers : TimerFires(tm)
    \/ \E t \in tasks : ScanOk(t)
    \/ \E t \in tasks : BuildOk(t)

SpecListeners == InitListeners /\ [][NextListeners]_vars

\* ---------------------------------------------------------------- claims
\* the refresh() executions in progress
InProgress == Cardinality(tasks)

\* C1: at most one rebuild (a refresh() between its start and its completion) is
\* in progress at any time.
C1_NoOverlappingRebuilds == InProgress <= 1

\* C2: when a debounced (timer-triggered) rebuild that started with a graph in
\* the cache fails, the failure is not propagated and the cache is as it was
\* before that rebuild started: that graph is still cached and still returned by
\* getCachedGraph.
C2_FailedDebouncedRebuildKeepsCache ==
    (/\ last.op = "done" /\ last.outcome = "failed" /\ last.t.origin = "timer"
     /\ last.t.graphBefore # Null)
        => /\ ~last.propagated
           /\ cachedGraph = last.t.graphBefore
           /\ \E a \in Ages : GetCachedGraph(a) = last.t.graphBefore

\* the current burst is over: its timeout expired and its rebuild has ended
BurstOver == burst.events # "none" /\ timers = {} /\ burst.outcome # "none"

\* C3 (as stated): a burst of N >= 1 file events on a running coordinator with
\* auto-refresh triggers exactly one rebuild and exactly one published event.
C3_BurstOneRebuildOneEvent ==
    (options.autoRefresh /\ BurstOver) => (burst.rebuilds = 1 /\ burst.published = 1)

\* C3 (amended): such a burst triggers no rebuild while its timeout is pending
\* and exactly one once it expired; that rebuild publishes exactly one event when
\* it succeeds, and none when the scan finds no contract or scan or build throws.
C3_BurstOneRebuild ==
    (options.autoRefresh /\ burst.events # "none")
        => /\ burst.rebuilds = (IF timers # {} THEN 0 ELSE 1)
           /\ Cardinality(timers) <= 1
           /\ burst.outcome # "none" => burst.rebuilds = 1
           /\ burst.published = (IF burst.outcome = "ok" THEN 1 ELSE 0)
           /\ Cardinality({t \in tasks : t.ofBurst}) =
                  (IF burst.rebuilds = 1 /\ burst.outcome = "none" THEN 1 ELSE 0)

C3_Witness ==
    /\ options.autoRefresh /\ isRunning
    /\ burst.events = "several" /\ burst.rebuilds = 1 /\ burst.published = 1
    /\ last.op = "done" /\ last.t.ofBurst

\* the position of package path p in the deployment order, 0 when it is absent
Position(order, p) == IF p \in Range(order) THEN IndexOf(order, p) ELSE 0

\* C4: in a built graph without cycles, deploymentOrder holds every workspace
\* package exactly once, and for every edge of graph.edges between two different
\* packages, whatever its source, the dependency `to` comes before the dependent
\* `from`.
C4_OrderRespectsEveryEdge ==
    (built /\ graph.cycles = <<>>)
        => /\ Len(graph.deploymentOrder) = Len(Contracts)
           /\ Range(graph.deploymentOrder) = {CargoTomlPath(c) : c \in ContractNames}
           /\ \A i \in DOMAIN graph.edges :
                  graph.edges[i].from # graph.edges[i].to
                      => Position(graph.deploymentOrder, graph.edges[i].to)
                             < Position(graph.deploymentOrder, graph.edges[i].from)

\* the pairs (from, to) of a sequence of edges
Pairs(edges) == {<<edges[i].from, edges[i].to>> : i \in DOMAIN edges}

RECURSIVE Closure(_, _)
\* the nodes of R and those reached from them along pairs of E
Closure(R, E) ==
    LET more == R \cup {e[2] : e \in {x \in E : x[1] \in R}}
    IN  IF more = R THEN R ELSE Closure(more, E)

\* the nodes reached from the set S along one or more pairs of E
ReachableFrom(S, E) == Closure({e[2] : e \in {x \in E : x[1] \in S}}, E)

\* the nodes that lie on a directed cycle of E through two or more nodes
OnCycle(E) ==
    LET proper == {e \in E : e[1] # e[2]}
    IN  {n \in {e[1] : e \in proper} : n \in ReachableFrom({n}, proper)}

\* C5: whenever the edges of a built graph, import-only edges included, contain a
\* directed cycle through two or more packages, graph.cycles is not empty and
\* hasCircularDependencies is true.
C5_EveryEdgeCycleReported ==
    (built /\ OnCycle(Pairs(graph.edges)) # {})
        => (graph.cycles # <<>> /\ HasCircularDependencies(graph))

\* the declared dependencies between two different workspace packages, as pairs
\* of manifest paths
DeclaredPairs ==
    {<<CargoTomlPath(d.from), CargoTomlPath(d.name)>> :
        d \in {x \in declared : x.name \in ContractNames /\ x.name # x.from}}

\* the nodes on a cycle together with n
Component(n, E) == {m \in ReachableFrom({n}, E) : n \in ReachableFrom({m}, E)}

\* every cycle of E is alone in its component: simple, and sharing no package
\* with another cycle
DisjointSimpleCycles(E) ==
    \A n \in OnCycle(E) : Cardinality({m \in Component(n, E) : <<n, m>> \in E}) = 1

\* a reported cycle is a closed walk along E: it ends where it starts, each entry
\* depends on the next, and its packages are listed once
ClosedWalk(cycle, E) ==
    /\ Len(cycle) >= 3
    /\ cycle[1] = cycle[Len(cycle)]
    /\ \A i \in 1..(Len(cycle) - 1) : <<cycle[i], cycle[i + 1]>> \in E
    /\ Cardinality(Range(cycle)) = Len(cycle) - 1

\* C6: building a graph from declared dependencies that hold cycles completes and
\* reports them: graph.cycles is empty exactly when the declared dependencies are
\* acyclic, every reported cycle is a cycle of declared dependencies, every
\* package of a simple cycle disjoint from the others is in exactly one reported
\* cycle (so a single k-cycle is reported once with its k packages, and two
\* disjoint cycles are both reported), hasCircularDependencies is true exactly
\* when graph.cycles is not empty, and getCircularDependencyDetails returns one
\* description per cycle.
C6_DeclaredCyclesReported ==
    built
        => /\ (graph.cycles = <<>>) <=> (OnCycle(DeclaredPairs) = {})
           /\ \A i \in DOMAIN graph.cycles : ClosedWalk(graph.cycles[i], DeclaredPairs)
           /\ DisjointSimpleCycles(DeclaredPairs)
                => \A n \in OnCycle(DeclaredPairs) :
                       Cardinality({i \in DOMAIN graph.cycles :
                                       n \in Range(graph.cycles[i])}) = 1
           /\ HasCircularDependencies(graph) <=> (graph.cycles # <<>>)
           /\ Len(GetCircularDependencyDetails(graph)) = Len(graph.cycles)
           /\ \A i \in DOMAIN graph.cycles :
                  GetCircularDependencyDetails(graph)[i][2] = graph.cycles[i]

\* two disjoint declared cycles were built into a graph, and both are reported
C6_Witness ==
    /\ built
    /\ Len(graph.cycles) = 2
    /\ Range(graph.cycles[1]) \cap Range(graph.cycles[2]) = {}
    /\ HasCircularDependencies(graph)
    /\ Len(GetCircularDependencyDetails(graph)) = 2

\* C7: while the coordinator is running, paths leave the pending set only in a
\* step in which a rebuild publishes its change event, and every path that
\* leaves is in that event's affectedContracts.
C7_PendingClearedOnlyByPublish ==
    [][(isRunning /\ isRunning' /\ ~(pendingChanges \subseteq pendingChanges'))
          => /\ last'.op = "done" /\ last'.outcome = "ok"
             /\ last'.event.graph # Null
             /\ pendingChanges \subseteq last'.event.affectedContracts]_vars

C7_Witness ==
    /\ isRunning /\ last.op = "done" /\ last.outcome = "ok"
    /\ last.event.affectedContracts = Paths /\ pendingChanges = {}

\* C8: a manual refresh starts its rebuild at once, whatever the state of the
\* debounce timer, and when scan or build fails the rejection reaches the caller.
C8_ManualRefreshPropagates ==
    /\ started < MaxRebuilds => ENABLED (\E k \in ManualKinds : ManualRefresh(k))
    /\ (last.op = "done" /\ last.outcome = "failed" /\ last.t.origin = "manual")
          => last.propagated

C8_Witness ==
    /\ last.op = "done" /\ last.outcome = "failed" /\ last.t.origin = "manual"
    /\ last.propagated /\ timers # {}

C10_CacheFreshness ==
    \A a \in Ages :
        GetCachedGraph(a) = IF lastBuild.graph # Null /\ now - lastBuild.time <= a
                            THEN lastBuild.graph ELSE Null

C10_Witness ==
    /\ lastBuild.graph # Null
    /\ \E a, b \in Ages : GetCachedGraph(a) = Null /\ GetCachedGraph(b) = lastBuild.graph

\* C11: in every state, rebuilds in flight or not, what getCachedGraph returns
\* is null or the graph of a build that has completed: no build still in flight
\* has its graph in the cache, and every part of the returned object comes from
\* that one build.
C11_CacheNeverPartial ==
    \A a \in Ages :
        LET g == GetCachedGraph(a)
        IN  g # Null
                => /\ g = lastBuild.graph
                   /\ \A t \in tasks : t.id # g
                   /\ \A p \in GraphParts : AssembledGraph(g)[p] = g

\* a graph is returned from the cache while another rebuild is building
C11_Witness ==
    /\ \E a \in Ages : GetCachedGraph(a) # Null
    /\ \E t \in tasks : t.pc = "build"

\* C12: a graph a build returned never changes afterwards: invalidateCache(),
\* later builds and the queries leave every graph returned so far as it is, and
\* every build returns an object no earlier build returned.
C12_ReturnedGraphsImmutable ==
    [][/\ \A id \in 1..started : heap'[id] = heap[id]
       /\ (answer'.op = "buildDependencyGraph" /\ answer' # answer)
            => (answer'.graph \notin 1..started /\ cachedGraph' = answer'.graph)]_vars

\* two builds returned different graphs, the cache was invalidated and the
\* first graph was queried
C12_Witness ==
    /\ started >= 2
    /\ heap[1] # heap[2]
    /\ cachedGraph = Null
    /\ answer.op = "getContractDependencies" /\ answer.graph = 1 /\ answer.name = "a"
    /\ answer.result.direct = heap[1].nodes["a"].dependencies
    /\ answer.result.direct # <<>>

\* ---------------------------------------------------------------------- C13
\* an import record names two workspace packages when both of its names,
\* lower-cased, are package names
Resolves(imp) ==
    /\ ToLowerCase(imp.sourceContract) \in ContractNames
    /\ ToLowerCase(imp.importedModule) \in ContractNames

\* the ordered pair of manifests an import record stands for
ResolvedPair(imp) ==
    <<CargoTomlPath(ToLowerCase(imp.sourceContract)),
      CargoTomlPath(ToLowerCase(imp.importedModule))>>

\* the positions of graph.imports whose record stands for the pair key
ImportsOfPair(g, key) ==
    {k \in DOMAIN g.imports : Resolves(g.imports[k]) /\ ResolvedPair(g.imports[k]) = key}

\* C13: graph.edges holds at most one edge per ordered pair (from, to), and
\* every import record that resolves to a pair is in the imports list of that
\* pair's one edge, so that repeated imports of one target accumulate on one
\* edge: the list is as long as the number of records of the pair
C13_OneEdgePerPair ==
    built =>
        /\ \A i, j \in DOMAIN graph.edges :
               EdgeKey(graph.edges[i]) = EdgeKey(graph.edges[j]) => i = j
        /\ \A k \in DOMAIN graph.imports :
               Resolves(graph.imports[k])
                   => \E i \in DOMAIN graph.edges :
                          /\ EdgeKey(graph.edges[i]) = ResolvedPair(graph.imports[k])
                          /\ graph.imports[k] \in Range(graph.edges[i].imports)
                          /\ Len(graph.edges[i].imports)
                                 = Cardinality(ImportsOfPair(graph, EdgeKey(graph.edges[i])))

\* a built graph where two imports of one target sit on one declared edge,
\* next to an edge that no import confirms
C13_Witness ==
    /\ built
    /\ \E i \in DOMAIN graph.edges :
           /\ Len(graph.edges[i].imports) = 2
           /\ [from |-> graph.edges[i].from.dir, name |-> graph.edges[i].to.dir] \in declared
    /\ \E i \in DOMAIN graph.edges : graph.edges[i].imports = <<>>

\* ---------------------------------------------------------------------- C14
\* a sequence without its k-th element
RemoveAt(seq, k) == [i \in 1..(Len(seq) - 1) |-> IF i < k THEN seq[i] ELSE seq[i + 1]]

\* the edges the resolver reports for the written workspace
DeclaredEdges == ResolveEdges(declared)

\* the import records of the built graph whose pair has a declared edge
Confirming(g) ==
    {k \in DOMAIN g.imports :
        /\ Resolves(g.imports[k])
        /\ \E e \in Range(DeclaredEdges) : EdgeKey(e) = ResolvedPair(g.imports[k])}

\* C14: an import record whose pair of packages already has a declared edge
\* does not change the number of edges: compared with the edges merged
\* without that record, the pair's edge was 'cargo' (or 'both', when another
\* import confirmed it) and is 'both' with it, and every other edge is the
\* same
C14_ConfirmingImportKeepsEdgeCount ==
    built =>
        \A k \in Confirming(graph) :
            LET without == BuildEnhancedEdges(DeclaredEdges, RemoveAt(graph.imports, k))
                key     == ResolvedPair(graph.imports[k])
            IN  /\ Len(graph.edges) = Len(without)
                /\ \A i \in DOMAIN without :
                       IF EdgeKey(without[i]) = key
                       THEN /\ EdgeKey(graph.edges[i]) = key
                            /\ graph.edges[i].source = "both"
                            /\ without[i].source
                                  = (IF Confirming(graph) \cap ImportsOfPair(graph, key) = {k}
                                     THEN "cargo" ELSE "both")
                       ELSE graph.edges[i] = without[i]

\* a built graph with a declared edge that two imports confirm, next to a
\* declared edge that none confirms
C14_Witness ==
    /\ built
    /\ \E k1, k2 \in Confirming(graph) :
           /\ k1 # k2
           /\ ResolvedPair(graph.imports[k1]) = ResolvedPair(graph.imports[k2])
           /\ \E i \in DOMAIN graph.edges :
                  /\ EdgeKey(graph.edges[i]) = ResolvedPair(graph.imports[k1])
                  /\ graph.edges[i].source = "both"
    /\ \E i \in DOMAIN graph.edges : graph.edges[i].source = "cargo"

\* ---------------------------------------------------------------------- C15
\* the pair of an import record has an edge declared in a manifest
HasDeclaredEdge(imp) ==
    \E e \in Range(DeclaredEdges) : EdgeKey(e) = ResolvedPair(imp)

\* C15: an import record affects the edges if and only if both of its names
\* resolve, case-insensitively, to workspace packages: the merge without the
\* record gives other edges exactly then; a resolving record of a pair with no
\* declared edge leaves that pair with an edge of source 'import'; a record
\* whose target is no package changes nothing and is still in graph.imports
C15_ImportEdgeIffBothResolve ==
    built =>
        \A k \in DOMAIN graph.imports :
            LET imp     == graph.imports[k]
                without == BuildEnhancedEdges(DeclaredEdges, RemoveAt(graph.imports, k))
            IN  /\ (graph.edges # without) <=> Resolves(imp)
                /\ (Resolves(imp) /\ ~HasDeclaredEdge(imp))
                       => \E i \in DOMAIN graph.edges :
                              /\ EdgeKey(graph.edges[i]) = ResolvedPair(imp)
                              /\ graph.edges[i].source = "import"
                /\ imp \in imported

\* ---------------------------------------------------------------------- C16
\* the pairs (node, dependency) of a node map
NodePairs(nodes) ==
    {p \in (DOMAIN nodes) \X (DOMAIN nodes) : p[2] \in Range(nodes[p[1]].dependencies)}

\* no node reaches itself along its dependencies, a self-dependency included
Acyclic(nodes) ==
    LET E == NodePairs(nodes)
    IN  \A n \in DOMAIN nodes : n \notin ReachableFrom({n}, E)

\* the largest number of a non-empty finite set of numbers
Largest(S) == CHOOSE x \in S : \A y \in S : y <= x

\* C16: in an acyclic graph the depth of a node is 0 when it has no workspace
\* dependency and otherwise 1 plus the largest depth of its dependencies,
\* wherever the packages stand in the list (a chain x -> y -> z gives 2, 1, 0
\* in either direction of the list), and statistics.maxDepth is the largest
\* depth of a node
C16_DepthIsLongestChain ==
    (built /\ Acyclic(graph.nodes)) =>
        /\ \A n \in DOMAIN graph.nodes :
               graph.nodes[n].depth
                   = (IF graph.nodes[n].dependencies = <<>>
                      THEN 0
                      ELSE 1 + Largest({graph.nodes[d].depth :
                                           d \in Range(graph.nodes[n].dependencies)}))
        /\ graph.statistics.maxDepth
               = Largest({graph.nodes[n].depth : n \in DOMAIN graph.nodes})

\* the chain c -> b -> a, listed from its end, with d depending on the two
\* ends: d has dependencies of depths 2 and 0 and is the deepest node
C16_Witness ==
    /\ built
    /\ Acyclic(graph.nodes)
    /\ graph.nodes["c"].depth = 2 /\ graph.nodes["b"].depth = 1 /\ graph.nodes["a"].depth = 0
    /\ graph.nodes["d"].dependencies = <<"a", "c">>
    /\ graph.nodes["d"].depth = 3
    /\ graph.statistics.maxDepth = 3

\* ---------------------------------------------------------------------- C17
\* the node map of the built graph before its depths are computed
NodesBeforeDepths == Adjacency([c \in ContractNames |-> NewNode], graph.edges)

\* C17: the depth computation ends for every workspace, with cycles and
\* self-dependencies too: the walk expands every node once and no node twice,
\* and the graph it leaves has a depth between 0 and the number of packages
\* at every node
C17_DepthWalkTerminates ==
    built =>
        LET walk == DepthWalk(NodesBeforeDepths)
        IN  /\ walk.nodes = graph.nodes
            /\ \A n \in ContractNames :
                   Cardinality({i \in DOMAIN walk.expanded : walk.expanded[i] = n}) = 1
            /\ \A n \in ContractNames : graph.nodes[n].depth \in 0..Len(Contracts)

\* a built graph where one package depends on itself and two packages depend
\* on each other
C17_Witness ==
    /\ built
    /\ \E n \in ContractNames : n \in Range(graph.nodes[n].dependencies)
    /\ \E n, m \in ContractNames :
           /\ n # m
           /\ m \in Range(graph.nodes[n].dependencies)
           /\ n \in Range(graph.nodes[m].dependencies)
           /\ graph.nodes[n].depth = 2

\* ---------------------------------------------------------------------- C18
\* C18: in every built graph the cycle count of the statistics,
\* statistics.circularDependencies, is the number of cycles the resolver
\* reported, the length of graph.cycles
C18_CycleCountInStatistics ==
    built => graph.statistics.circularDependencies = Len(graph.cycles)

\* ---------------------------------------------------------------------- C19
\* the packages with no edge of the graph leaving them, and with none entering
NoOutgoing(g) ==
    {n \in ContractNames : \A i \in DOMAIN g.edges : g.edges[i].from # CargoTomlPath(n)}

NoIncoming(g) ==
    {n \in ContractNames : \A i \in DOMAIN g.edges : g.edges[i].to # CargoTomlPath(n)}

\* C19: statistics.leafContracts is the number of nodes with no outgoing
\* workspace edge and statistics.rootContracts the number of nodes with no
\* incoming one, so that a node with neither is counted in both
C19_LeafAndRootCounts ==
    built =>
        /\ graph.statistics.leafContracts = Cardinality(NoOutgoing(graph))
        /\ graph.statistics.rootContracts = Cardinality(NoIncoming(graph))
        /\ graph.statistics.leafContracts + graph.statistics.rootContracts
               = Cardinality(NoOutgoing(graph) \cup NoIncoming(graph))
                   + Cardinality(NoOutgoing(graph) \cap NoIncoming(graph))

\* a built graph with a package that only depends, one that is only depended
\* on, one that does both and one with no edge at all
C19_Witness ==
    /\ built
    /\ NoOutgoing(graph) \cap NoIncoming(graph) # {}
    /\ NoOutgoing(graph) \ NoIncoming(graph) # {}
    /\ NoIncoming(graph) \ NoOutgoing(graph) # {}
    /\ ContractNames \ (NoOutgoing(graph) \cup NoIncoming(graph)) # {}
    /\ graph.statistics.leafContracts = 2
    /\ graph.statistics.rootContracts = 2

\* ---------------------------------------------------------------------- C20
\* the queries that take the name of a contract
NodeQueries == {"getContractDependencies", "getContractDependents"}

\* C20: getContractDependencies and getContractDependents asked about a name
\* that is no node of the graph return, and what they return is an empty
\* direct list and an empty transitive list; the call leaves every graph
\* object and the cache as they were
C20_UnknownNameGivesEmptyLists ==
    [][(/\ answer' # answer
        /\ answer'.op \in NodeQueries
        /\ \A i \in DOMAIN Contracts : Contracts[i] # answer'.name)
           => /\ answer'.result.direct = <<>>
              /\ answer'.result.transitive = <<>>
              /\ heap' = heap
              /\ cachedGraph' = cachedGraph
              /\ lastScanTime' = lastScanTime]_vars

\* the dependents of "A" were asked of a cached graph in which package a has
\* dependents, and the lists came back empty
C20_Witness ==
    /\ answer.op = "getContractDependents"
    /\ answer.name = "A"
    /\ answer.graph = cachedGraph
    /\ heap[answer.graph].nodes["a"].dependents # <<>>
    /\ answer.result = NoNodes

\* ---------------------------------------------------------------------- C21
\* the workspace relates no package to a package: no manifest names one and
\* no import resolves to one
NoRelations ==
    /\ \A d \in declared : d.name \notin ContractNames
    /\ \A imp \in imported : ~Resolves(imp)

\* C21: a graph built over N packages has exactly N nodes, one per package,
\* whatever its edges are, and statistics.totalContracts is N; when nothing
\* relates the packages to each other the edge list is empty
C21_OneNodePerPackage ==
    built =>
        /\ DOMAIN graph.nodes = ContractNames
        /\ Cardinality(DOMAIN graph.nodes) = Len(Contracts)
        /\ graph.statistics.totalContracts = Len(Contracts)
        /\ NoRelations => graph.edges = <<>>

\* a graph built over the four packages of a workspace whose only facts are
\* imports of a crate that is no package: four nodes, no edge
C21_Witness ==
    /\ built
    /\ imported # {}
    /\ NoRelations
    /\ Cardinality(DOMAIN graph.nodes) = 4
    /\ graph.edges = <<>>
    /\ graph.imports # <<>>

\* ---------------------------------------------------------------------- C23
\* a sequence that holds no element twice
NoRepeats(seq) == \A i, j \in DOMAIN seq : seq[i] = seq[j] => i = j

\* C23: in a built graph no dependencies list and no dependents list holds a
\* name twice (a pair found in a manifest and in an import is one entry), the
\* two counts of a node are the lengths of its two lists, and b is among the
\* dependencies of a exactly when a is among the dependents of b
C23_AdjacencyListsConsistent ==
    built =>
        /\ \A n \in ContractNames :
               /\ NoRepeats(graph.nodes[n].dependencies)
               /\ NoRepeats(graph.nodes[n].dependents)
               /\ graph.nodes[n].dependencyCount = Len(graph.nodes[n].dependencies)
               /\ graph.nodes[n].dependentCount = Len(graph.nodes[n].dependents)
        /\ \A a, b \in ContractNames :
               (b \in Range(graph.nodes[a].dependencies))
                   <=> (a \in Range(graph.nodes[b].dependents))

\* a built graph whose edge from a to b is both declared and imported:
\* b is one entry of a's dependencies and a one entry of b's dependents
C23_Witness ==
    /\ built
    /\ \E i \in DOMAIN graph.edges :
           /\ graph.edges[i].from = CargoTomlPath("a")
           /\ graph.edges[i].to = CargoTomlPath("b")
           /\ graph.edges[i].source = "both"
           /\ [from |-> "a", name |-> "b"] \in declared
    /\ graph.nodes["a"].dependencies = <<"b">>
    /\ graph.nodes["b"].dependents = <<"a">>
    /\ graph.nodes["a"].dependencyCount = 1

\* ---------------------------------------------------------------------- C26
\* the pairs (node, dependent) of a node map
DependentPairs(nodes) ==
    {p \in (DOMAIN nodes) \X (DOMAIN nodes) : p[2] \in Range(nodes[p[1]].dependents)}

\* the pairs a node query follows: dependencies, or dependents
QueryPairs(kind, nodes) ==
    IF kind = "getContractDependencies" THEN NodePairs(nodes) ELSE DependentPairs(nodes)

\* the names next to a node in the direction a node query follows
Neighbours(kind, node) ==
    IF kind = "getContractDependencies" THEN node.dependencies ELSE node.dependents

\* C26: for a package of the graph, the transitive list of
\* getContractDependencies holds exactly the nodes reached from the package
\* along one or more dependency edges, each once, and so every direct
\* dependency; the lists are returned on graphs with cycles as well;
\* getContractDependents gives the same along the edges reversed
C26_TransitiveIsReachability ==
    (answer.op \in NodeQueries /\ answer.name \in ContractNames) =>
        LET nodes == heap[answer.graph].nodes
        IN  /\ Range(answer.result.transitive)
                   = ReachableFrom({answer.name}, QueryPairs(answer.op, nodes))
            /\ NoRepeats(answer.result.transitive)
            /\ answer.result.direct = Neighbours(answer.op, nodes[answer.name])
            /\ Range(answer.result.direct) \subseteq Range(answer.result.transitive)

\* the dependencies of a were asked of a graph where a and b depend on each
\* other and c depends on a: a reaches b, and itself through b
C26_Witness ==
    /\ answer.op = "getContractDependencies"
    /\ answer.name = "a"
    /\ answer.result.direct = <<"b">>
    /\ answer.result.transitive = <<"b", "a">>
    /\ heap[answer.graph].nodes["c"].dependencies = <<"a">>

\* ---------------------------------------------------------------------- C22
\* the names some manifest declares, in any table
Declared == {e.name : e \in entries}

\* a record of the name with neither a path nor the workspace marker
Unmarked(n) == \E e \in entries : e.name = n /\ ~e.path /\ ~e.workspace

\* C22: a declared dependency name is in graph.externalDependencies if and
\* only if no workspace package bears it and its record carries neither a
\* local path nor the workspace marker; the set shares no name with
\* workspaceContracts
C22_ExternalIffUnmarkedAndForeign ==
    manifestCall.built =>
        /\ \A n \in Declared :
               n \in manifestGraph.externalDependencies
                   <=> (n \notin ContractNames /\ Unmarked(n))
        /\ manifestGraph.externalDependencies \cap manifestGraph.workspaceContracts = {}

\* ---------------------------------------------------------------------- C25
\* package c declares n in the given table and in no other
DeclaredOnlyIn(t, c, n) ==
    /\ \E e \in entries : e.of = c /\ e.name = n /\ e.table = t
    /\ \A e \in entries : e.of = c /\ e.name = n => e.table = t

\* the graph has an edge from package c to package n
HasManifestEdge(c, n) ==
    \E i \in DOMAIN manifestGraph.edges :
        /\ manifestGraph.edges[i].from = CargoTomlPath(c)
        /\ manifestGraph.edges[i].to = CargoTomlPath(n)

\* C25: the caller's options decide which declared dependencies become edges:
\* a dependency on a package declared only under [build-dependencies] gives an
\* edge when includeBuildDependencies is true or left out and none when it is
\* false, and one declared only under [dev-dependencies] gives no edge when
\* includeDevDependencies is false or left out
C25_InclusionOptionsGovernEdges ==
    manifestCall.built =>
        \A c \in Range(Declaring) : \A n \in ContractNames \ {c} :
            /\ DeclaredOnlyIn("buildDependencies", c, n) =>
                   (HasManifestEdge(c, n)
                        <=> MergedOptions(manifestCall).includeBuildDependencies)
            /\ (DeclaredOnlyIn("devDependencies", c, n)
                    /\ ~MergedOptions(manifestCall).includeDevDependencies)
                   => ~HasManifestEdge(c, n)

\* ---------------------------------------------------------------------- C24
\* the directories above a path, up to the directory of its package
Ancestors(p) ==
    CASE p \in {"a/lib.rs", "a/README.md", "a/src", "a/target"} -> {"a"}
      [] p = "a/src/m.rs"      -> {"a", "a/src"}
      [] p = "a/target/gen.rs" -> {"a", "a/target"}
      [] p = "b/lib.rs"        -> {"b"}
      [] OTHER                 -> {}

\* the source files of the packages: a/lib.rs and a/src/m.rs of a, b/lib.rs of b
SourceFiles == {"a/lib.rs", "a/src/m.rs", "b/lib.rs"}

\* the import statements of the source files, as (file, line number, crate)
Statements ==
    {<<"a/lib.rs", 1, "b">>, <<"a/lib.rs", 3, "c">>, <<"a/lib.rs", 4, "x">>,
     <<"a/src/m.rs", 2, "A">>, <<"b/lib.rs", 2, "a">>, <<"b/lib.rs", 3, "a">>}

Scanned(st) ==
    \E i \in DOMAIN scan.imports :
        /\ scan.imports[i].sourceFile = st[1]
        /\ scan.imports[i].lineNumber = st[2]
        /\ scan.imports[i].importedModule = st[3]

\* C24: whatever files and directories cannot be read, the scan of the sources
\* does not throw; nothing unreadable or below something unreadable gives a
\* record, and every import statement of every source file that can be read,
\* in the same package and in the others, is among the records returned
C24_UnreadableSourcesAreSkipped ==
    scan.done =>
        /\ ~scan.threw
        /\ \A i \in DOMAIN scan.imports :
               ({scan.imports[i].sourceFile} \cup Ancestors(scan.imports[i].sourceFile))
                   \cap unreadable = {}
        /\ \A st \in Statements :
               ({st[1]} \cup Ancestors(st[1])) \cap unreadable = {} => Scanned(st)

\* a scan with a/lib.rs and the directory a/target unreadable that returned
\* the imports of a/src/m.rs, of the same package, and of b/lib.rs
C24_Witness ==
    /\ scan.done
    /\ {"a/lib.rs", "a/target"} \subseteq unreadable
    /\ Scanned(<<"a/src/m.rs", 2, "A">>)
    /\ Scanned(<<"b/lib.rs", 2, "a">>)
    /\ ~Scanned(<<"a/lib.rs", 1, "b">>)

\* ---------------------------------------------------------------------- C27
\* the ids of the profiles of a list
IdsOf(ps) == {ps[i].id : i \in DOMAIN ps}

ActiveIsListed ==
    \/ authState.activeProfileId = NoProfileId
    \/ authState.activeProfileId \in IdsOf(authState.profiles)

\* C27: after every call of createProfile, updateProfile, deleteProfile and
\* setActiveProfile, the failing ones too, the active profile id is undefined
\* or the id of a profile of the list; setActiveProfile with an id that no
\* profile has throws and leaves the active profile id as it was
C27_ActiveProfileIsListed ==
    [][/\ ActiveIsListed'
       /\ called'.op = "setActiveProfile" =>
              IF called'.threw
              THEN authState'.activeProfileId = authState.activeProfileId
              ELSE \A id \in ProfileIds :
                       SetActiveProfileCall(id) => id \in IdsOf(authState.profiles)]_vars

\* setActiveProfile has just thrown while a profile of the list is active
C27_Witness ==
    /\ called.op = "setActiveProfile"
    /\ called.threw
    /\ authState.activeProfileId \in IdsOf(authState.profiles)

\* ---------------------------------------------------------------------- C28
\* the keys the secret store holds, and the keys of the profiles of the list
StoredKeys == {e.key : e \in secretStore}

KeysOfProfiles == {GetSecretKey(id) : id \in IdsOf(authState.profiles)}

\* C28: deleteProfile(id) of an existing profile removes the profile from the
\* list and its secret from the secret store and clears the active profile id
\* if it was id; after any successful createProfile and deleteProfile calls the
\* secret store holds a secret for exactly the profiles of the list
C28_DeleteRemovesProfileAndSecret ==
    [][/\ \A id \in ProfileIds :
              (DeleteProfileCall(id) /\ id \in IdsOf(authState.profiles))
                  => /\ ~called'.threw
                     /\ id \notin IdsOf(authState'.profiles)
                     /\ GetSecretKey(id) \notin {e.key : e \in secretStore'}
                     /\ authState.activeProfileId = id
                            => authState'.activeProfileId = NoProfileId
       /\ StoredKeys' = KeysOfProfiles']_vars

\* ---------------------------------------------------------------------- C29
\* the profile getActiveProfile() finds
ActiveProfile == authState.profiles[FindIndex(authState.profiles, authState.activeProfileId)]

\* the secret stored for the active profile is there
ActiveSecretStored == GetSecretKey(authState.activeProfileId) \in StoredKeys

ActiveSecret ==
    (CHOOSE e \in secretStore : e.key = GetSecretKey(authState.activeProfileId)).value

\* the one header the type of the active profile asks for
ExpectedHeader ==
    CASE ActiveProfile.type = "api-key" ->
             [name |-> "X-Api-Key", value |-> <<ActiveSecret>>]
      [] ActiveProfile.type = "bearer-token" ->
             [name |-> "Authorization", value |-> <<"Bearer ", ActiveSecret>>]
      [] ActiveProfile.type = "basic" ->
             [name  |-> "Authorization",
              value |-> <<"Basic ", <<"base64", <<ActiveProfile.username, ":", ActiveSecret>> >> >>]
      [] ActiveProfile.type = "custom-header" ->
             [name |-> ActiveProfile.headerName, value |-> <<ActiveSecret>>]

\* C29: getAuthHeaders never throws; it returns no header when no profile is
\* active or the secret of the active profile is not in the secret store, and
\* otherwise exactly one header: X-Api-Key with the secret for api-key,
\* Authorization "Bearer <secret>" for bearer-token, Authorization "Basic" with
\* the base64 of username:secret for basic, and the header the profile names
\* with the secret for custom-header
C29_HeadersOfActiveProfile ==
    called.op = "getAuthHeaders" =>
        /\ ~called.threw
        /\ IF authState.activeProfileId = NoProfileId \/ ~ActiveSecretStored
           THEN called.headers = {}
           ELSE called.headers = {ExpectedHeader}

\* getAuthHeaders has answered for an active basic profile whose secret is
\* stored
C29_Witness ==
    /\ called.op = "getAuthHeaders"
    /\ authState.activeProfileId # NoProfileId
    /\ ActiveSecretStored
    /\ ActiveProfile.type = "basic"
    /\ called.headers # {}

\* ---------------------------------------------------------------------- C30
\* the reasons createProfile has to reject its arguments
Refused(a) ==
    \/ a.name \in {"", " "}
    \/ a.secret \in {"", " "}
    \/ a.type = "basic" /\ a.username \in {Undefined, "", " "}
    \/ a.type = "custom-header" /\ a.headerName \in {Undefined, "", " "}
    \/ \E i \in DOMAIN authState.profiles :
           ToLowerCase(authState.profiles[i].name) = ToLowerCase(a.name)

\* C30: a createProfile call with an empty name or secret, of type basic
\* without a username, of type custom-header without a header name, or with a
\* name that a profile already has, throws; and a createProfile call that
\* throws leaves the profile list, the active profile id and the secret store
\* as they were
C30_RejectedCreateChangesNothing ==
    [][called'.op = "createProfile" =>
           IF called'.threw
           THEN authState' = authState /\ secretStore' = secretStore
           ELSE \A a \in CreateArguments : CreateProfileCall(a) => ~Refused(a)]_vars

\* createProfile has just thrown with a profile in the list, its secret in the
\* store and a profile active
C30_Witness ==
    /\ called.op = "createProfile"
    /\ called.threw
    /\ authState.profiles # << >>
    /\ secretStore # {}
    /\ authState.activeProfileId # NoProfileId

\* ---------------------------------------------------------------------- C31
\* the secret the store holds for a profile, Undefined for none
SecretOf(secrets, p) == GetSecret(secrets, GetSecretKey(p.id))

\* the step is updateProfile(id, u), it did not throw, and i is the place of
\* the profile it updated
Updates(id, u, i) ==
    /\ UpdateProfileCall(id, u)
    /\ ~called'.threw
    /\ i = FindIndex(authState.profiles, id)

\* the profiles at the other places of the list and their secrets are as before
OthersUntouched(i) ==
    /\ Len(authState'.profiles) = Len(authState.profiles)
    /\ \A j \in DOMAIN authState.profiles \ {i} :
           /\ authState'.profiles[j] = authState.profiles[j]
           /\ SecretOf(secretStore', authState.profiles[j])
                  = SecretOf(secretStore, authState.profiles[j])

\* C31: updateProfile(id, {secret: s}) with a non-empty s stores s as the
\* secret of that profile, so that getAuthHeaders uses s when the profile is
\* active, and leaves the active profile id, the id and the type of the
\* profile, and every other profile and its secret as they were;
\* updateProfile without a secret leaves the stored secret as it was
C31_SecretUpdateFrame ==
    [][called'.op = "updateProfile" =>
           \A id \in ProfileIds, u \in UpdateArguments, i \in DOMAIN authState.profiles :
               Updates(id, u, i) =>
                   /\ u = [NoUpdates EXCEPT !.secret = "s2"] =>
                          /\ SecretOf(secretStore', authState'.profiles[i]) = "s2"
                          /\ authState'.activeProfileId = id =>
                                 GetAuthHeaders(authState', secretStore')
                                     = HeadersOf(authState'.profiles[i], "s2")
                          /\ authState'.activeProfileId = authState.activeProfileId
                          /\ authState'.profiles[i].id = authState.profiles[i].id
                          /\ authState'.profiles[i].type = authState.profiles[i].type
                          /\ OthersUntouched(i)
                   /\ u.secret = Undefined => secretStore' = secretStore]_vars

\* ---------------------------------------------------------------------- C32
\* no start() is suspended, no timeout is set and no refresh() is in flight
Quiet ==
    /\ \A pc \in StartPcs : startTasks[pc] = 0
    /\ timers = {}
    /\ tasks = {}

\* the last rebuild has just published, nothing else is going on, and a file
\* event has been seen since start()
SettledAfterEvents ==
    /\ isRunning
    /\ options.autoRefresh
    /\ Quiet
    /\ burst.events # "none"
    /\ last.op = "done"
    /\ last.outcome = "ok"

\* C32: while the coordinator runs with auto-refresh and rebuilds succeed, once
\* the file events have stopped and every rebuild has completed, the cached
\* graph and the graph of the last published event were built by a refresh()
\* that called scanWorkspace() after the last file event, that is by the
\* refresh() of the timeout the last file event set
C32_SettledGraphIsCurrent ==
    SettledAfterEvents =>
        /\ last.t.ofBurst
        /\ cachedGraph = last.t.id
        /\ last.event.graph = last.t.id

\* ---------------------------------------------------------------------- C33
\* C33: a file event on a running coordinator records its path in
\* pendingChanges and leaves exactly one timeout set, the one of this event
\* with its change kind; the refresh() that timeout calls has that kind, and
\* the event a debounced refresh() publishes has the kind of its refresh() and
\* names every path that is in pendingChanges, that is every path recorded
\* since pendingChanges was last cleared
C33_DebounceKeepsLastKindAndAllPaths ==
    [][/\ (isRunning /\ timers' # {} /\ started' = started /\ now' = now) =>
              \A kind \in EventKinds, path \in Paths :
                  FileEvent(kind, path) =>
                      /\ path \in pendingChanges'
                      /\ pendingChanges \subseteq pendingChanges'
                      /\ timers' = {NewTimer(kind)}
       /\ (isRunning /\ options.autoRefresh /\ started' # started /\ timers' # timers) =>
              \A tm \in timers :
                  TimerFires(tm) =>
                      /\ timers' = {}
                      /\ \E t \in tasks' \ tasks : t.origin = "timer" /\ t.kind = tm.kind
       /\ (last'.op = "done" /\ last'.outcome = "ok" /\ last'.t.origin = "timer") =>
              /\ last'.t \in tasks
              /\ last'.event.type = last'.t.kind
              /\ last'.event.affectedContracts = pendingChanges
              /\ pendingChanges' = {}]_vars

\* a debounced rebuild of a burst of several events has published an event
\* of kind "modified" that names both paths
C33_Witness ==
    /\ isRunning
    /\ burst.events = "several"
    /\ last.op = "done" /\ last.outcome = "ok"
    /\ last.t.origin = "timer" /\ last.t.ofBurst
    /\ last.event.type = "modified"
    /\ last.event.affectedContracts = Paths

\* ---------------------------------------------------------------------- C34
\* C34: emitChange() calls every listener that is subscribed when the event
\* is published exactly once, also when a listener disposes a subscription
\* (its own or another one) during the delivery, and calls no listener that is
\* not subscribed then
C34_EverySubscriberGetsTheEventOnce ==
    \A l \in Listeners :
        last.delivery.got[l] = (IF l \in Range(last.delivery.atPublish) THEN 1 ELSE 0)

\* ---------------------------------------------------------------------- C35
\* C35: at any time at most one manifest watch and at most one source watch
\* are live (created and not disposed), and right after a stop() of a running
\* coordinator none is live, whatever the order of the start() and stop()
\* calls, a second start() before the first one has resumed included
C35_AtMostOneWatchOfAKind ==
    /\ liveCargo <= 1
    /\ liveSource <= 1
    /\ last.op = "stop" => (liveCargo = 0 /\ liveSource = 0)

\* ---------------------------------------------------------------------- C36
\* the coordinator is stopped and no start() is suspended
StoppedIdle ==
    /\ ~isRunning
    /\ \A pc \in StartPcs : startTasks[pc] = 0

\* no listener has been called in the last emitChange()
NobodyCalled(d) == \A l \in Listeners : d.got[l] = 0

C38_ThrowingListenerIsContained ==
    [][(last'.op = "done" /\ last'.delivery.threw # {}) =>
           /\ last'.outcome = "ok"
           /\ ~last'.propagated
           /\ ~last'.delivery.escaped
           /\ pendingChanges' = {}
           /\ last'.event.affectedContracts = pendingChanges
           /\ changeListeners' = last'.delivery.atPublish =>
                  \A l \in Range(changeListeners) : last'.delivery.got[l] = 1]_vars

\* the first of two listeners threw, the second got the event, and the path
\* that was pending is in the event and no longer pending
C38_Witness ==
    /\ last.op = "done"
    /\ last.delivery.atPublish = <<"f", "g">>
    /\ last.delivery.threw = {"f"}
    /\ last.delivery.got["g"] = 1
    /\ last.event.affectedContracts # {}
    /\ pendingChanges = {}

\* ---------------------------------------------------------------------- C39
\* C39: no edge of a built graph leads from a package to itself, and no node
\* names itself among its dependencies or its dependents: an import statement
\* in the sources of a package that names the package itself makes no edge
C39_NoSelfEdges ==
    built =>
        /\ \A i \in DOMAIN graph.edges : graph.edges[i].from # graph.edges[i].to
        /\ \A n \in ContractNames :
               /\ n \notin Range(graph.nodes[n].dependencies)
               /\ n \notin Range(graph.nodes[n].dependents)

\* ---------------------------------------------------------------------- C40
\* C40: whatever createProfile and updateProfile calls have succeeded, no two
\* profiles of the store have names that are equal when their case is
\* ignored, the names taken as they are stored (trimmed)
C40_NamesUniqueIgnoringCase ==
    \A i, j \in DOMAIN authState.profiles :
        ToLowerCase(Trim(authState.profiles[i].name))
            = ToLowerCase(Trim(authState.profiles[j].name)) => i = j

====
